---- MODULE Spec2Model ----
(***************************************************************************)
(* A model of the GitHub monitoring service: the token pool                *)
(* (github/token_pool: TokenPool, TokenInfo), the search service           *)
(* (github/search.go: SearchCode, SearchWithRetry, buildQuery) and the     *)
(* monitor service (monitor/monitor.go: Start, Stop, run, scan, scanRule,  *)
(* filterWhitelist, saveResults, recordScanHistory).                       *)
(*                                                                         *)
(* Time is kept relative to the wall clock: a rate-limit snapshot's Reset  *)
(* field holds the number of minutes from now until the reset instant      *)
(* (negative: the instant has passed).  The clock is watched in steps of   *)
(* ResetHorizon - 1 minutes, which tells apart the three cases the code    *)
(* tells apart: a reset beyond the horizon, one within it, and one that    *)
(* has passed.  Instants in the past are not told apart.                   *)
(***************************************************************************)
EXTENDS Integers, Sequences, FiniteSets, TLC

\* ------------------------------------------------------------------ bounds
\* Number of tokens the pool is built with (NewTokenPool's non-empty tokens).
NTokens == 2

\* Longest list of search results handed to one saveResults call.
MaxCands == 2
\* Most rows the search_results table is let grow to.
MaxRows == 3

\* Number of API requests (StartMonitor, StopMonitor) served at the same time.
NThreads == 2
\* Most run() goroutines let live at the same time.
MaxLoops == 2

\* ------------------------------------------------------- program constants
\* GetClient: HasRemainingCalls(10), and UpdateRateLimit: Remaining > 10.
ReserveThreshold == 10
\* GetClient: time.Until(nextReset) < 5*time.Minute.
ResetHorizon == 5
\* SearchCode: if page >= 10 || len(codeResults.CodeResults) == 0 { break }
MaxPages == 10
\* scanRule: m.searchService.SearchWithRetry(ctx, searchOpts, 3)
ScanMaxRetries == 3

VARIABLES
    tokens,        \* TokenPool.tokens: index -> [IsAvailable, RateLimit]
    currentIndex,  \* TokenPool.currentIndex
    ret,           \* what the latest GetClient call returned
    prevIdx,       \* the token the GetClient call before it returned, or -1
    refreshPos,    \* main's RefreshAllTokens: index of the next token to refresh
    sw,            \* the SearchWithRetry call in progress and its bookkeeping
    storage,       \* the search_results table: (rule id, repo, path) -> number of rows
    sv,            \* the latest saveResults call made on its own: its arguments and what it did
    isRunning,     \* MonitorService.isRunning
    api,           \* request goroutine -> where it is in Start or Stop
    loops,         \* where in run() -> number of run() goroutines there
    stopDone,      \* a Stop has returned and no Start has set isRunning since
    bq,            \* the latest buildQuery call: its options and the query built
    whitelist,     \* the whitelists table: a list of [Type, Value]
    fw,            \* the latest filterWhitelist call: its results and what it returned
    channels,      \* number of enabled rows of the notification_configs table
    scan,          \* the scan() in progress, and the latest rule's scan history
    pmu,           \* TokenPool.mu
    tmu,           \* TokenInfo.mu of every token
    th,            \* goroutine -> where it is in the methods of the pool
    ur             \* the latest UpdateRateLimit call made on its own: token, answer, result

poolVars == <<tokens, currentIndex, ret, prevIdx, refreshPos>>

storeVars == <<storage, sv>>

monVars == <<isRunning, api, loops, stopDone>>

scanVars == <<bq, whitelist, fw, channels, scan>>

lockVars == <<pmu, tmu, th>>

callVars == <<ur>>

vars == <<tokens, currentIndex, ret, prevIdx, refreshPos, sw, storage, sv,
          isRunning, api, loops, stopDone, bq, whitelist, fw, channels, scan,
          pmu, tmu, th, ur>>

\* --------------------------------------------------------------- the pool
TokenIdx == 0 .. (NTokens - 1)

\* TokenInfo.RateLimit == nil
NoRate == [Remaining |-> -1, Reset |-> -1, Nil |-> TRUE]

Rate(remaining, reset) == [Remaining |-> remaining, Reset |-> reset, Nil |-> FALSE]

\* What the quota endpoint can answer to RateLimit.Get: an error, a body
\* without the core resource, or a core rate whose reset lies ahead, within
\* the horizon or beyond it.
QuotaResponses ==
    { [err |-> TRUE, core |-> NoRate], [err |-> FALSE, core |-> NoRate] } \cup
    { [err |-> FALSE, core |-> Rate(r, t)] :
          r \in {ReserveThreshold, ReserveThreshold + 1},
          t \in {1, ResetHorizon + 1} }

\* NewTokenPool: every token starts available, with no snapshot.
NewTokenInfo == [IsAvailable |-> TRUE, RateLimit |-> NoRate]

\* UpdateRateLimit with the flag assigned from the comparison.
UpdateRateLimitAssigning(t, resp) ==
    IF resp.err THEN [tok |-> t, err |-> TRUE]
    ELSE IF resp.core.Nil THEN [tok |-> t, err |-> FALSE]
    ELSE [tok |-> [IsAvailable |-> resp.core.Remaining > ReserveThreshold,
                   RateLimit |-> resp.core],
          err |-> FALSE]

\* TokenInfo.UpdateRateLimit: the token afterwards and whether it failed.
UpdateRateLimit(t, resp) ==
    IF resp.err THEN [tok |-> t, err |-> TRUE]
    ELSE IF resp.core.Nil THEN [tok |-> t, err |-> FALSE]
    ELSE [tok |-> [IsAvailable |-> IF resp.core.Remaining > ReserveThreshold
                                   THEN TRUE ELSE t.IsAvailable,
                   RateLimit |-> resp.core],
          err |-> FALSE]

\* TokenInfo.HasRemainingCalls comparing with >= instead of >.
HasRemainingCallsInclusive(t, threshold) ==
    IF t.RateLimit.Nil THEN TRUE
    ELSE IF t.RateLimit.Reset < 0 THEN TRUE
    ELSE t.RateLimit.Remaining >= threshold

\* TokenInfo.HasRemainingCalls
HasRemainingCalls(t, threshold) ==
    IF t.RateLimit.Nil THEN TRUE
    ELSE IF t.RateLimit.Reset < 0 THEN TRUE
    ELSE t.RateLimit.Remaining > threshold

\* markTokenUnavailable leaving the flag as it is.
markTokenUnavailableSkipped(toks, index) == toks

\* TokenPool.markTokenUnavailable
markTokenUnavailable(toks, index) ==
    IF index >= 0 /\ index < NTokens
    THEN [toks EXCEPT ![index].IsAvailable = FALSE]
    ELSE toks

\* nextToken without the wrap to the first token.
nextTokenUnwrapped(cur) == cur + 1

\* TokenPool.nextToken
nextToken(cur) == (cur + 1) % NTokens

Min(S) == CHOOSE x \in S : \A y \in S : x <= y

\* TokenPool.getNextResetTime: the earliest Reset of the tokens that have a
\* snapshot; IsZero when none has one.
getNextResetTime(toks) ==
    LET have == { i \in TokenIdx : ~toks[i].RateLimit.Nil } IN
    IF have = {} THEN [IsZero |-> TRUE, at |-> 0]
    ELSE [IsZero |-> FALSE, at |-> Min({ toks[i].RateLimit.Reset : i \in have })]

\* The horizon test passing whenever some token has a snapshot.
ResetsSoonAlways(nextReset) == ~nextReset.IsZero

\* GetClient, line 188: !nextReset.IsZero() && time.Until(nextReset) < 5*time.Minute
ResetsSoon(nextReset) == ~nextReset.IsZero /\ nextReset.at < ResetHorizon

\* A result of GetClient: kind "ok" (the token idx; first: it was the token at
\* the cursor), "exhausted" (the typed error, at: the reset instant it names),
\* "notokens" (the generic error) or "panic"; calls: the number of
\* UpdateRateLimit calls (requests to the quota endpoint) the call made.
NoRet == [kind |-> "none", idx |-> -1, first |-> FALSE, at |-> 0, calls |-> 0]

\* The set of ways the loop of GetClient can end from (toks, cur) after
\* `attempts` tokens were passed over and `calls` refreshes were made, one
\* for each answer in `resps` of the quota endpoint to each refresh the
\* loop makes.
RECURSIVE GetClientLoop(_, _, _, _, _, _)
GetClientLoop(toks, cur, startIndex, attempts, calls, resps) ==
    IF attempts >= NTokens
    THEN { [tokens |-> toks, currentIndex |-> cur,
            ret |-> [kind |-> "notokens", idx |-> -1, first |-> FALSE, at |-> 0,
                     calls |-> calls]] }
    ELSE
      LET passOver(ts, made) ==
            \* p.nextToken(); attempts++; then the all-cycled check
            LET cur2 == nextToken(cur)
                att2 == attempts + 1
                nextReset == getNextResetTime(ts)
            IN IF cur2 = startIndex /\ att2 = NTokens /\ ResetsSoon(nextReset)
               THEN { [tokens |-> ts, currentIndex |-> cur2,
                       ret |-> [kind |-> "exhausted", idx |-> -1,
                                first |-> FALSE, at |-> nextReset.at,
                                calls |-> made]] }
               ELSE GetClientLoop(ts, cur2, startIndex, att2, made, resps)
      IN
      IF toks[cur].IsAvailable
      THEN UNION { LET u == UpdateRateLimit(toks[cur], resp)
                       ts == [toks EXCEPT ![cur] = u.tok]
                   IN IF u.err
                      THEN \* markTokenUnavailable; nextToken; attempts++; continue
                           GetClientLoop(markTokenUnavailable(ts, cur),
                                         nextToken(cur), startIndex, attempts + 1,
                                         calls + 1, resps)
                      ELSE IF HasRemainingCalls(u.tok, ReserveThreshold)
                      THEN IF u.tok.RateLimit.Nil
                           THEN \* log.Printf reads tokenInfo.RateLimit.Remaining
                                { [tokens |-> ts, currentIndex |-> cur,
                                   ret |-> [kind |-> "panic", idx |-> cur,
                                            first |-> attempts = 0, at |-> 0,
                                            calls |-> calls + 1]] }
                           ELSE { [tokens |-> ts, currentIndex |-> cur,
                                   ret |-> [kind |-> "ok", idx |-> cur,
                                            first |-> attempts = 0, at |-> 0,
                                            calls |-> calls + 1]] }
                      ELSE passOver(markTokenUnavailable(ts, cur), calls + 1)
                 : resp \in resps }
      ELSE passOver(toks, calls)

\* The loop of GetClient with the cursor also moved past the token returned.
GetClientOutcomesAdvancing(toks, cur, resps) ==
    { [o EXCEPT !.currentIndex = IF o.ret.kind = "ok" THEN nextToken(@) ELSE @] :
        o \in GetClientLoop(toks, cur, cur, 0, 0, resps) }

\* TokenPool.GetClient, under p.mu from start to end.
GetClientOutcomes(toks, cur, resps) == GetClientLoop(toks, cur, cur, 0, 0, resps)

Alive == ret.kind # "panic"

\* A call of GetClient during which the quota endpoint answers from `resps`.
GetClientUnder(resps) ==
    /\ Alive
    /\ refreshPos = NTokens
    /\ \E out \in GetClientOutcomes(tokens, currentIndex, resps) :
          /\ tokens' = out.tokens
          /\ currentIndex' = out.currentIndex
          /\ ret' = out.ret
    /\ prevIdx' = IF ret.kind = "ok" THEN ret.idx ELSE -1
    /\ UNCHANGED refreshPos

GetClient == GetClientUnder(QuotaResponses) /\ UNCHANGED <<sw, storeVars, lockVars, callVars, monVars, scanVars>>

\* TokenPool.RefreshAllTokens, called once by main before the monitor and the
\* API start: it refreshes the tokens one after the other, and a failure
\* leaves that token as it was.
RefreshAllTokens ==
    /\ refreshPos \in TokenIdx
    /\ \E resp \in QuotaResponses :
          tokens' = [tokens EXCEPT ![refreshPos] = UpdateRateLimit(@, resp).tok]
    /\ refreshPos' = refreshPos + 1
    /\ UNCHANGED <<currentIndex, ret, prevIdx, sw, storeVars, lockVars, callVars, monVars, scanVars>>

\* ResetHorizon - 1 minutes pass: every stored reset instant comes closer.
TickRate(r) ==
    IF r.Nil THEN r
    ELSE [r EXCEPT !.Reset = IF @ - (ResetHorizon - 1) < 0 THEN -1
                             ELSE @ - (ResetHorizon - 1)]

Tick ==
    /\ Alive
    /\ tokens' = [i \in TokenIdx |-> [tokens[i] EXCEPT !.RateLimit = TickRate(@)]]
    /\ tokens' # tokens
    /\ UNCHANGED <<currentIndex, ret, prevIdx, refreshPos, sw, storeVars, lockVars, callVars, monVars, scanVars>>

\* ------------------------------------------------------ the search service
\* strings.Contains
Contains(str, sub) ==
    \E k \in 1 .. (Len(str) - Len(sub) + 1) : SubSeq(str, k, k + Len(sub) - 1) = sub

\* The error GetClient returns, as text (the reset instant is not spelled out).
PoolErrorText(r) ==
    IF r.kind = "exhausted" THEN "all tokens rate limited, next reset at T"
    ELSE "no available tokens"

\* What client.Search.Code can answer for one page: status 200 with or
\* without items, an HTTP error status, or no response at all (status 0).
PageResponses ==
    { [status |-> 200, items |-> 1, msg |-> ""],
      [status |-> 200, items |-> 0, msg |-> ""],
      [status |-> 403, items |-> 0, msg |-> "403 API rate limit exceeded"],
      [status |-> 429, items |-> 0, msg |-> "429 You have exceeded a secondary rate limit"],
      [status |-> 500, items |-> 0, msg |-> "500 Internal Server Error"],
      [status |-> 0, items |-> 0, msg |-> "dial tcp: connection refused"] }

\* SearchCode, lines 75-82: the error a failed page request is returned as.
PageErrorText(resp) ==
    IF resp.status = 403 THEN "rate limit exceeded: " \o resp.msg
    ELSE "search failed: " \o resp.msg

\* What failed, for the bookkeeping of the model: a 403 answer, another
\* answer whose message mentions a rate limit, or anything else.
PageCause(resp) ==
    IF resp.status = 403 THEN "http403"
    ELSE IF Contains(resp.msg, "rate limit") THEN "other_ratelimit"
    ELSE "other"

\* The backoff computed from the loop index itself.
BackoffSecondsFromZero(i) == i * 10

\* SearchWithRetry, line 216: the seconds slept after the failed attempt i (from 0).
BackoffSeconds(i) == (i + 1) * 10

\* The page test off by one.
LastPageLate(page, items) == page > MaxPages \/ items = 0

\* SearchCode, line 95: whether page was the last page to request.
LastPage(page, items) == page >= MaxPages \/ items = 0

\* What the calls made with a cancelled ctx come back with: ctx.Err().
CancelledQuota == { [err |-> TRUE, core |-> NoRate] }

CancelledPage == { [status |-> 0, items |-> 0, msg |-> "context canceled"] }

\* ctx: "live", "cancelled" (and no call made with it since), "observed" (a
\* call was made with the cancelled ctx); sleepsAtCancel: the number of
\* backoff sleeps begun before the ctx was cancelled; acquires: the calls of
\* GetClient made by the current SearchCode; collected: len(results) of the
\* current SearchCode; discarded: an attempt of this call failed after it
\* had appended items to its results.
NoSearch ==
    [pc |-> "idle", maxRetries |-> 0, i |-> 0, lastErr |-> "", attempts |-> 0,
     acquires |-> 0, page |-> 0, pageLog |-> <<>>, lastItems |-> 0, collected |-> 0,
     sleeps |-> <<>>, lastCause |-> "none", result |-> [kind |-> "none", err |-> "", n |-> 0],
     ctx |-> "live", sleepsAtCancel |-> 0, discarded |-> FALSE]

\* The ctx after a call was made with it.
Observed(ctx) == IF ctx = "live" THEN "live" ELSE "observed"

\* The retry decision made on the HTTP status alone.
AfterFailureByStatus(w, err, cause) ==
    IF cause = "http403"
    THEN [w EXCEPT !.lastErr = err, !.lastCause = cause,
                   !.sleeps = Append(@, BackoffSeconds(w.i)),
                   !.i = @ + 1, !.pc = "backoff", !.page = 0, !.collected = 0,
                   !.discarded = @ \/ w.collected > 0]
    ELSE [w EXCEPT !.lastErr = err, !.lastCause = cause,
                   !.pc = "done", !.page = 0, !.collected = 0,
                   !.discarded = @ \/ w.collected > 0,
                   !.result = [kind |-> "err", err |-> err, n |-> 0]]

\* SearchWithRetry, lines 212-221: an attempt failed with err; what failed is
\* kept in sw.lastCause. At "backoff" the call is inside time.Sleep.
AfterFailure(w, err, cause) ==
    IF Contains(err, "rate limit")
    THEN [w EXCEPT !.lastErr = err, !.lastCause = cause,
                   !.sleeps = Append(@, BackoffSeconds(w.i)),
                   !.i = @ + 1, !.pc = "backoff", !.page = 0, !.collected = 0,
                   !.discarded = @ \/ w.collected > 0]
    ELSE [w EXCEPT !.lastErr = err, !.lastCause = cause,
                   !.pc = "done", !.page = 0, !.collected = 0,
                   !.discarded = @ \/ w.collected > 0,
                   !.result = [kind |-> "err", err |-> err, n |-> 0]]

\* SearchWithRetry, line 224: fmt.Errorf("max retries exceeded: %w", lastErr)
GiveUpResult(w) ==
    [kind |-> "err", n |-> 0,
     err |-> "max retries exceeded: " \o
             (IF w.lastCause = "none" THEN "%!w(<nil>)" ELSE w.lastErr)]

\* A caller enters SearchWithRetry(ctx, opts, maxRetries).
SearchWithRetryCall ==
    /\ Alive
    /\ refreshPos = NTokens
    /\ sw.pc = "idle"
    /\ \E m \in 0 .. ScanMaxRetries : sw' = [NoSearch EXCEPT !.pc = "loop", !.maxRetries = m]
    /\ UNCHANGED <<poolVars, storeVars, lockVars, callVars, monVars, scanVars>>

\* SearchWithRetry's loop starts another attempt: SearchCode builds the
\* query and takes a client from the pool, once for the whole search.
\* GetClient hands ctx to the refresh of every token it finds available.
SearchCodeBegin ==
    /\ Alive
    /\ sw.pc = "loop"
    /\ sw.i < sw.maxRetries
    /\ GetClientUnder(IF sw.ctx = "live" THEN QuotaResponses ELSE CancelledQuota)
    /\ LET w == [sw EXCEPT !.attempts = @ + 1, !.acquires = 1,
                           !.pageLog = <<>>, !.lastItems = 0,
                           !.ctx = IF \E t \in TokenIdx : tokens[t].IsAvailable
                                   THEN Observed(@) ELSE @] IN
       sw' = IF ret'.kind = "ok"
             THEN [w EXCEPT !.pc = "page", !.page = 1, !.collected = 0]
             ELSE IF ret'.kind = "panic" THEN [w EXCEPT !.pc = "crashed"]
             ELSE AfterFailure(w, "failed to get client: " \o PoolErrorText(ret'),
                               ret'.kind)
    /\ UNCHANGED <<storeVars, lockVars, callVars, monVars, scanVars>>

\* SearchCode handing back the items of the pages before the one that failed.
PageAnsweredPartial(w0, resp) ==
    LET w == [w0 EXCEPT !.pageLog = Append(@, w0.page), !.lastItems = resp.items,
                        !.ctx = Observed(@)]
        failed == AfterFailure(w, PageErrorText(resp), PageCause(resp))
    IN
    IF resp.status # 200
    THEN [failed EXCEPT !.collected = w0.collected,
                        !.result = IF failed.pc = "done"
                                   THEN [@ EXCEPT !.n = w0.collected] ELSE @]
    ELSE IF LastPage(w0.page, resp.items)
    THEN [w EXCEPT !.pc = "done", !.page = 0,
                   !.collected = @ + resp.items,
                   !.result = [kind |-> "ok", err |-> "",
                               n |-> w0.collected + resp.items]]
    ELSE [w EXCEPT !.pc = "pagewait", !.page = @ + 1, !.collected = @ + resp.items]

\* SearchCode, lines 72-103: the search after the page w.page was requested
\* and answered by resp. At "pagewait" the call is inside time.Sleep.
PageAnswered(w0, resp) ==
    LET w == [w0 EXCEPT !.pageLog = Append(@, w0.page), !.lastItems = resp.items,
                        !.ctx = Observed(@)] IN
    IF resp.status # 200
    THEN AfterFailure(w, PageErrorText(resp), PageCause(resp))
    ELSE IF LastPage(w0.page, resp.items)
    THEN [w EXCEPT !.pc = "done", !.page = 0,
                   !.collected = @ + resp.items,
                   !.result = [kind |-> "ok", err |-> "",
                               n |-> w0.collected + resp.items]]
    ELSE [w EXCEPT !.pc = "pagewait", !.page = @ + 1, !.collected = @ + resp.items]

\* The page loop taking a client from the pool again for every page after
\* the first.
SearchCodePageAcquiring ==
    /\ Alive
    /\ sw.pc = "page"
    /\ IF sw.page = 1
       THEN /\ UNCHANGED poolVars
            /\ \E resp \in (IF sw.ctx = "live" THEN PageResponses ELSE CancelledPage) :
                  sw' = PageAnswered(sw, resp)
       ELSE /\ GetClientUnder(IF sw.ctx = "live" THEN QuotaResponses ELSE CancelledQuota)
            /\ LET w == [sw EXCEPT !.acquires = @ + 1] IN
               IF ret'.kind = "ok"
               THEN \E resp \in (IF sw.ctx = "live" THEN PageResponses ELSE CancelledPage) :
                       sw' = PageAnswered(w, resp)
               ELSE IF ret'.kind = "panic" THEN sw' = [w EXCEPT !.pc = "crashed"]
               ELSE sw' = AfterFailure(w, "failed to get client: " \o PoolErrorText(ret'),
                                       ret'.kind)
    /\ UNCHANGED <<storeVars, lockVars, callVars, monVars, scanVars>>

\* SearchCode requests the page sw.page with the client it took at line 54
\* and handles the answer; between two pages it sleeps 2 seconds.
SearchCodePage ==
    /\ Alive
    /\ sw.pc = "page"
    /\ \E resp \in (IF sw.ctx = "live" THEN PageResponses ELSE CancelledPage) :
          sw' = PageAnswered(sw, resp)
    /\ UNCHANGED <<poolVars, storeVars, lockVars, callVars, monVars, scanVars>>

\* SearchCode, line 103: time.Sleep(2 * time.Second) returns when the 2
\* seconds have passed, whatever has become of ctx.
SearchCodePageDelay ==
    /\ Alive
    /\ sw.pc = "pagewait"
    /\ sw' = [sw EXCEPT !.pc = "page"]
    /\ UNCHANGED <<poolVars, storeVars, lockVars, callVars, monVars, scanVars>>

\* SearchWithRetry, lines 216-218: time.Sleep(waitTime) returns when the
\* backoff has passed, whatever has become of ctx; `continue`.
SearchWithRetryBackoff ==
    /\ Alive
    /\ sw.pc = "backoff"
    /\ sw' = [sw EXCEPT !.pc = "loop"]
    /\ UNCHANGED <<poolVars, storeVars, lockVars, callVars, monVars, scanVars>>

\* The caller cancels the ctx it gave to SearchWithRetry: before an attempt,
\* before a page request, or during one of the two sleeps.
CancelContext ==
    /\ Alive
    /\ sw.pc \in {"loop", "page", "backoff", "pagewait"}
    /\ sw.ctx = "live"
    /\ sw' = [sw EXCEPT !.ctx = "cancelled", !.sleepsAtCancel = Len(sw.sleeps)]
    /\ UNCHANGED <<poolVars, storeVars, lockVars, callVars, monVars, scanVars>>

\* SearchWithRetry, line 224: the loop ran out of attempts.
SearchWithRetryGiveUp ==
    /\ Alive
    /\ sw.pc = "loop"
    /\ sw.i >= sw.maxRetries
    /\ sw' = [sw EXCEPT !.pc = "done", !.result = GiveUpResult(sw)]
    /\ UNCHANGED <<poolVars, storeVars, lockVars, callVars, monVars, scanVars>>

\* SearchWithRetry has returned sw.result to its caller.
SearchWithRetryReturn ==
    /\ Alive
    /\ sw.pc = "done"
    /\ sw' = NoSearch
    /\ UNCHANGED <<poolVars, storeVars, lockVars, callVars, monVars, scanVars>>

\* ----------------------------------------------------------- the query
\* Longest keyword list and longest list of excluded extensions of a rule.
MaxKeywords == 2
MaxExts == 2

\* The options scanRule and the API hand to buildQuery: keywords and
\* extensions as parsed from the rule's JSON arrays, MatchType as stored
\* ("precise" or "fuzzy"; anything else is treated like "fuzzy").
SearchOptions ==
    [Keywords : UNION { [1 .. n -> {"", "password", "api_key"}] : n \in 0 .. MaxKeywords },
     MatchType : {"precise", "fuzzy", ""},
     ExcludeExts : UNION { [1 .. n -> {"", "md", ".env"}] : n \in 0 .. MaxExts },
     Language : {"", "go"}]

\* strings.TrimPrefix
TrimPrefix(str, prefix) ==
    IF Len(str) >= Len(prefix) /\ SubSeq(str, 1, Len(prefix)) = prefix
    THEN SubSeq(str, Len(prefix) + 1, Len(str))
    ELSE str

\* strings.Join
RECURSIVE Join(_, _)
Join(parts, sep) ==
    IF Len(parts) = 0 THEN ""
    ELSE IF Len(parts) = 1 THEN parts[1]
    ELSE parts[1] \o sep \o Join(Tail(parts), sep)

\* Every keyword appended as it is, whatever the match type.
QueryPartUnquoted(keyword, matchType) == keyword

\* buildQuery, lines 114-128: what a non-empty keyword is appended as.
QueryPart(keyword, matchType) ==
    IF matchType = "precise" THEN "\"" \o keyword \o "\"" ELSE keyword

\* The loop over opts.Keywords without the test for the empty keyword.
RECURSIVE QueryPartsKeepingEmpty(_, _)
QueryPartsKeepingEmpty(keywords, matchType) ==
    IF Len(keywords) = 0 THEN <<>>
    ELSE <<QueryPart(keywords[1], matchType)>>
             \o QueryPartsKeepingEmpty(Tail(keywords), matchType)

\* buildQuery, lines 116-127: the loop over opts.Keywords.
RECURSIVE QueryParts(_, _)
QueryParts(keywords, matchType) ==
    IF Len(keywords) = 0 THEN <<>>
    ELSE IF keywords[1] # ""
    THEN <<QueryPart(keywords[1], matchType)>> \o QueryParts(Tail(keywords), matchType)
    ELSE QueryParts(Tail(keywords), matchType)

\* buildQuery, lines 133-137: the loop over opts.ExcludeExts.
RECURSIVE ExcludeClauses(_)
ExcludeClauses(exts) ==
    IF Len(exts) = 0 THEN ""
    ELSE (IF exts[1] # "" THEN " -extension:" \o TrimPrefix(exts[1], ".") ELSE "")
         \o ExcludeClauses(Tail(exts))

\* SearchService.buildQuery
buildQuery(opts) ==
    Join(QueryParts(opts.Keywords, opts.MatchType), " ")
        \o ExcludeClauses(opts.ExcludeExts)
        \o (IF opts.Language # "" THEN " language:" \o opts.Language ELSE "")

\* models.MonitorRule: the columns scanRule reads, as stored (JSON texts).
RuleRows ==
    [Keywords : { "[\"password\"]", "[\"password\",\"api_key\"]", "[]", "[\"\"]",
                  "[\"\",\"\"]", "null", "", "password", "[\"password\"",
                  "[\"password\",]" },
     MatchType : {"precise", "fuzzy"},
     ExcludeExts : { "", "[]", "[\".env\"]", "[\"md\",\".env\"]", "{", "[md]" }]

NoRule == [Keywords |-> "", MatchType |-> "", ExcludeExts |-> ""]

\* The index of the first double quote of str at or after i, or 0.
RECURSIVE FindQuote(_, _)
FindQuote(str, i) ==
    IF i > Len(str) THEN 0
    ELSE IF SubSeq(str, i, i) = "\"" THEN i
    ELSE FindQuote(str, i + 1)

\* json.Unmarshal into []string, from the element that starts at i on: a
\* quoted string followed by a comma and another element, or by the closing
\* bracket that ends the text.
RECURSIVE ParseItems(_, _, _)
ParseItems(str, i, acc) ==
    LET j == FindQuote(str, i + 1) IN
    IF i > Len(str) \/ SubSeq(str, i, i) # "\"" \/ j = 0
    THEN [err |-> TRUE, list |-> <<>>]
    ELSE LET list == Append(acc, SubSeq(str, i + 1, j - 1)) IN
         IF j + 1 = Len(str) /\ SubSeq(str, j + 1, j + 1) = "]"
         THEN [err |-> FALSE, list |-> list]
         ELSE IF j + 1 < Len(str) /\ SubSeq(str, j + 1, j + 1) = ","
         THEN ParseItems(str, j + 2, list)
         ELSE [err |-> TRUE, list |-> <<>>]

\* json.Unmarshal([]byte(str), &list) for a []string, on texts without
\* white space and escapes: null gives the nil slice, [] the empty one,
\* anything that is not an array of strings an error.
Unmarshal(str) ==
    IF str = "null" \/ str = "[]" THEN [err |-> FALSE, list |-> <<>>]
    ELSE IF Len(str) < 2 \/ SubSeq(str, 1, 1) # "["
    THEN [err |-> TRUE, list |-> <<>>]
    ELSE ParseItems(str, 2, <<>>)

\* The keywords parsed as the extensions are: the empty text is an empty list.
ParseKeywordsEmptyOk(keywordsJSON) ==
    IF keywordsJSON = "" THEN [err |-> FALSE, list |-> <<>>] ELSE Unmarshal(keywordsJSON)

\* github.ParseKeywords
ParseKeywords(keywordsJSON) == Unmarshal(keywordsJSON)

\* github.ParseExcludeExts
ParseExcludeExts(extsJSON) ==
    IF extsJSON = "" THEN [err |-> FALSE, list |-> <<>>] ELSE Unmarshal(extsJSON)

\* kind: "built" (a call of buildQuery), "skipped" (scanRule returned before
\* its search) or "searched" (scanRule called SearchWithRetry, whose
\* SearchCode built the query); status: what scanRule handed to
\* recordScanHistory before the search, if anything.
NoQuery == [kind |-> "none", rule |-> NoRule, opts |-> <<>>, query |-> "", status |-> ""]

\* SearchCode, line 51: query := s.buildQuery(opts). buildQuery reads and
\* keeps no state, so one call for each input is all it can do.
BuildQueryCall ==
    /\ bq.kind = "none"
    /\ \E opts \in SearchOptions :
          bq' = [NoQuery EXCEPT !.kind = "built", !.opts = opts, !.query = buildQuery(opts)]
    /\ UNCHANGED <<poolVars, sw, storeVars, lockVars, callVars, monVars, whitelist, fw, channels, scan>>

\* scanRule, lines 104-133, for one rule row, up to SearchCode's buildQuery
\* (search.go, line 51): keywords that do not parse end the rule's scan with
\* a failed history row; extensions that do not parse are logged and
\* replaced by the empty list.
ScanRuleOptions ==
    /\ bq.kind = "none"
    /\ \E rule \in RuleRows :
          LET keywords == ParseKeywords(rule.Keywords)
              excludeExts == ParseExcludeExts(rule.ExcludeExts)
              searchOpts == [Keywords |-> keywords.list, MatchType |-> rule.MatchType,
                             ExcludeExts |-> IF excludeExts.err THEN <<>>
                                             ELSE excludeExts.list,
                             Language |-> ""]
          IN bq' = IF keywords.err
                   THEN [NoQuery EXCEPT !.kind = "skipped", !.rule = rule,
                                        !.status = "failed"]
                   ELSE [NoQuery EXCEPT !.kind = "searched", !.rule = rule,
                                        !.opts = searchOpts,
                                        !.query = buildQuery(searchOpts)]
    /\ UNCHANGED <<poolVars, sw, storeVars, lockVars, callVars, monVars, whitelist, fw, channels, scan>>

\* ------------------------------------------------------ the monitor service
Threads == 1 .. NThreads

\* Where a run() goroutine can be: created and about to make the initial
\* scan, inside the initial scan, waiting in the select, inside a scan
\* started by the ticker.
LoopPcs == {"start", "initscan", "select", "tickscan"}

\* Number of run() goroutines that have not returned.
AliveLoops == loops["start"] + loops["initscan"] + loops["select"] + loops["tickscan"]

\* Number of run() goroutines inside scan().
Scanning == loops["initscan"] + loops["tickscan"]

\* StartMonitor and Start, line 34: the request reads isRunning; when it is
\* set, Start is a no-op.
StartCheck(t) ==
    /\ api[t] = "idle"
    /\ api' = [api EXCEPT ![t] = IF isRunning THEN "idle" ELSE "starting"]
    /\ UNCHANGED <<isRunning, loops, stopDone>>
    /\ UNCHANGED <<poolVars, sw, storeVars, lockVars, callVars, scanVars>>

\* Start, lines 39-42: m.isRunning = true; go m.run().
StartSpawn(t) ==
    /\ api[t] = "starting"
    /\ AliveLoops < MaxLoops
    /\ isRunning' = TRUE
    /\ loops' = [loops EXCEPT !["start"] = @ + 1]
    /\ api' = [api EXCEPT ![t] = "idle"]
    /\ stopDone' = FALSE
    /\ UNCHANGED <<poolVars, sw, storeVars, lockVars, callVars, scanVars>>

\* StopMonitor and Stop, line 47: the request reads isRunning; when it is
\* set, Stop goes on to send on stopChan.
StopCheck(t) ==
    /\ api[t] = "idle"
    /\ api' = [api EXCEPT ![t] = IF isRunning THEN "sending" ELSE "idle"]
    /\ UNCHANGED <<isRunning, loops, stopDone>>
    /\ UNCHANGED <<poolVars, sw, storeVars, lockVars, callVars, scanVars>>

\* Stop, lines 53-54: the send was taken; m.isRunning = false; return.
StopFinish(t) ==
    /\ api[t] = "sent"
    /\ isRunning' = FALSE
    /\ api' = [api EXCEPT ![t] = "idle"]
    /\ stopDone' = TRUE
    /\ UNCHANGED loops
    /\ UNCHANGED <<poolVars, sw, storeVars, lockVars, callVars, scanVars>>

\* run going to its select without a scan.
RunSkipsInitialScan ==
    /\ loops["start"] > 0
    /\ loops' = [loops EXCEPT !["start"] = @ - 1, !["select"] = @ + 1]
    /\ UNCHANGED <<isRunning, api, stopDone>>
    /\ UNCHANGED <<poolVars, sw, storeVars, lockVars, callVars, scanVars>>

\* run, line 68: the initial scan starts.
RunInitialScan ==
    /\ loops["start"] > 0
    /\ loops' = [loops EXCEPT !["start"] = @ - 1, !["initscan"] = @ + 1]
    /\ UNCHANGED <<isRunning, api, stopDone>>
    /\ UNCHANGED <<poolVars, sw, storeVars, lockVars, callVars, scanVars>>

\* scan returns, and run goes (back) to its select.
RunScanReturns(p) ==
    /\ p \in {"initscan", "tickscan"}
    /\ loops[p] > 0
    /\ loops' = [loops EXCEPT ![p] = @ - 1, !["select"] = @ + 1]
    /\ UNCHANGED <<isRunning, api, stopDone>>
    /\ UNCHANGED <<poolVars, sw, storeVars, lockVars, callVars, scanVars>>

\* run, lines 72-73: case <-ticker.C: m.scan().
RunTick ==
    /\ loops["select"] > 0
    /\ loops' = [loops EXCEPT !["select"] = @ - 1, !["tickscan"] = @ + 1]
    /\ UNCHANGED <<isRunning, api, stopDone>>
    /\ UNCHANGED <<poolVars, sw, storeVars, lockVars, callVars, scanVars>>

\* run, lines 74-75, with Stop, line 52: a goroutine in the select takes
\* the value a Stop is sending on the unbuffered stopChan, and returns.
RunReceiveStop(t) ==
    /\ api[t] = "sending"
    /\ loops["select"] > 0
    /\ loops' = [loops EXCEPT !["select"] = @ - 1]
    /\ api' = [api EXCEPT ![t] = "sent"]
    /\ UNCHANGED <<isRunning, stopDone>>
    /\ UNCHANGED <<poolVars, sw, storeVars, lockVars, callVars, scanVars>>

\* ------------------------------------------------------------- the storage
\* The ids of the monitor rules, and the (repository, file path) pairs the
\* search can come back with.
RuleIds == {1, 2}

CandKeys ==
    { [RepoFullName |-> "octo/secrets", FilePath |-> "config.env"],
      [RepoFullName |-> "octo/secrets", FilePath |-> "deploy/prod.env"],
      [RepoFullName |-> "octocat/other", FilePath |-> "config.env"] }

\* models.SearchResult: the columns saveResults queries on.
Row(ruleID, repo, path) == [RuleID |-> ruleID, RepoFullName |-> repo, FilePath |-> path]

Rows == { Row(r, k.RepoFullName, k.FilePath) : r \in RuleIds, k \in CandKeys }

RECURSIVE SumOver(_, _)
SumOver(f, S) ==
    IF S = {} THEN 0
    ELSE LET x == CHOOSE y \in S : TRUE IN f[x] + SumOver(f, S \ {x})

\* Number of rows of the table.
RowCount(store) == SumOver(store, DOMAIN store)

\* The lists of results a search can hand to saveResults.
CandLists == UNION { [1 .. n -> CandKeys] : n \in 0 .. MaxCands }

\* The query with the result's columns bound in the wrong order.
ExistsMatchSwapped(store, ruleID, result) ==
    \E r \in DOMAIN store :
        /\ store[r] > 0
        /\ r.RuleID = ruleID
        /\ r.RepoFullName = result.FilePath
        /\ r.FilePath = result.RepoFullName

\* saveResults, lines 222-223: Where("rule_id = ? AND repo_full_name = ? AND
\* file_path = ?", ...).First(&existingResult) finds a row.
ExistsMatch(store, ruleID, result) ==
    \E r \in DOMAIN store :
        /\ store[r] > 0
        /\ r.RuleID = ruleID
        /\ r.RepoFullName = result.RepoFullName
        /\ r.FilePath = result.FilePath

\* saveResults' loop from the k-th result on: the ways it can end, one for
\* each way the database treats the statements. First returns an error when
\* no row matches and when the query itself fails, and saveResults inserts
\* on either.
RECURSIVE SaveLoop(_, _, _, _, _, _)
SaveLoop(store, ruleID, results, k, newCount, fault) ==
    IF k > Len(results)
    THEN { [storage |-> store, newCount |-> newCount, fault |-> fault] }
    ELSE UNION {
        LET err == db.query \/ ~ExistsMatch(store, ruleID, results[k])
            row == Row(ruleID, results[k].RepoFullName, results[k].FilePath)
            failed == fault \/ db.query \/ (err /\ db.create)
        IN IF err /\ ~db.create
           THEN SaveLoop([store EXCEPT ![row] = @ + 1], ruleID, results,
                         k + 1, newCount + 1, failed)
           ELSE SaveLoop(store, ruleID, results, k + 1, newCount, failed)
        : db \in [query : BOOLEAN, create : BOOLEAN] }

\* MonitorService.saveResults
saveResults(store, ruleID, results) == SaveLoop(store, ruleID, results, 1, 0, FALSE)

Range(seq) == { seq[k] : k \in 1 .. Len(seq) }

NoSave ==
    [kind |-> "none", rule |-> 0, cands |-> <<>>, newCount |-> 0, inserted |-> 0,
     changed |-> FALSE, fault |-> FALSE, repeat |-> FALSE, prevFault |-> FALSE]

\* scanRule calls saveResults with the results of a search.
SaveResultsCall ==
    \E ruleID \in RuleIds, results \in CandLists :
        /\ RowCount(storage) + Len(results) <= MaxRows
        /\ \E out \in saveResults(storage, ruleID, results) :
              /\ storage' = out.storage
              /\ sv' = [kind |-> "save", rule |-> ruleID, cands |-> results,
                        newCount |-> out.newCount,
                        inserted |-> RowCount(out.storage) - RowCount(storage),
                        changed |-> out.storage # storage,
                        fault |-> out.fault,
                        repeat |-> /\ sv.kind = "save"
                                   /\ sv.rule = ruleID
                                   /\ Range(sv.cands) = Range(results),
                        prevFault |-> sv.fault]
        /\ UNCHANGED <<poolVars, sw, monVars, scanVars, lockVars, callVars>>

\* -------------------------------------------------------- the whitelist
\* Most rows the whitelists table is let grow to.
MaxEntries == 2

\* API.CreateWhitelist: a row is added, unless its Value is there already
\* (models.Whitelist: Type is "user" or "repo"; Value has a unique index).
CreateWhitelist ==
    /\ Len(whitelist) < MaxEntries
    /\ \E entry \in [Type : {"user", "repo"}, Value : {"octo", "octocat", "octo/secrets"}] :
          /\ \A k \in 1 .. Len(whitelist) : whitelist[k].Value # entry.Value
          /\ whitelist' = Append(whitelist, entry)
    /\ UNCHANGED <<poolVars, sw, storeVars, lockVars, callVars, monVars, bq, fw, channels, scan>>

\* API.DeleteWhitelist
DeleteWhitelist ==
    /\ \E k \in 1 .. Len(whitelist) :
          whitelist' = SubSeq(whitelist, 1, k - 1) \o SubSeq(whitelist, k + 1, Len(whitelist))
    /\ UNCHANGED <<poolVars, sw, storeVars, lockVars, callVars, monVars, bq, fw, channels, scan>>

\* splitRepoName from the i-th byte on: the text before and the text after
\* the first '/', or nothing when there is none.
RECURSIVE splitFrom(_, _)
splitFrom(fullName, i) ==
    IF i > Len(fullName) THEN <<>>
    ELSE IF SubSeq(fullName, i, i) = "/"
    THEN <<SubSeq(fullName, 1, i - 1), SubSeq(fullName, i + 1, Len(fullName))>>
    ELSE splitFrom(fullName, i + 1)

\* splitRepoName
splitRepoName(fullName) == splitFrom(fullName, 1)

\* A user entry matching every repository whose name starts with its value.
EntryMatchesByPrefix(entry, result) ==
    \/ entry.Type = "repo" /\ result.RepoFullName = entry.Value
    \/ /\ entry.Type = "user"
       /\ Len(result.RepoFullName) >= Len(entry.Value)
       /\ SubSeq(result.RepoFullName, 1, Len(entry.Value)) = entry.Value

\* filterWhitelist, lines 176-190: the entry whitelists the result.
EntryMatches(entry, result) ==
    \/ entry.Type = "repo" /\ result.RepoFullName = entry.Value
    \/ /\ entry.Type = "user"
       /\ Len(result.RepoFullName) > 0
       /\ LET parts == splitRepoName(result.RepoFullName) IN
          Len(parts) > 0 /\ parts[1] = entry.Value

\* filterWhitelist, lines 175-191: the loop over the entries, from the k-th on.
RECURSIVE isWhitelisted(_, _, _)
isWhitelisted(result, entries, k) ==
    IF k > Len(entries) THEN FALSE
    ELSE IF EntryMatches(entries[k], result) THEN TRUE
    ELSE isWhitelisted(result, entries, k + 1)

\* filterWhitelist, lines 172-196: the loop over the results.
RECURSIVE filterLoop(_, _)
filterLoop(results, entries) ==
    IF Len(results) = 0 THEN <<>>
    ELSE (IF isWhitelisted(results[1], entries, 1) THEN <<>> ELSE <<results[1]>>)
         \o filterLoop(Tail(results), entries)

\* MonitorService.filterWhitelist; found is what Find(&whitelist) came back
\* with: an error, or the rows of the table.
filterWhitelist(results, found) ==
    IF found.err THEN results
    ELSE IF Len(found.rows) = 0 THEN results
    ELSE filterLoop(results, found.rows)

\* What db.GetDB().Find(&whitelist) can come back with.
FindWhitelist == { [err |-> FALSE, rows |-> whitelist], [err |-> TRUE, rows |-> <<>>] }

NoFilter == [kind |-> "none", results |-> <<>>, found |-> [err |-> FALSE, rows |-> <<>>],
             out |-> <<>>]

\* scanRule, line 146: filteredResults := m.filterWhitelist(results).
\* filterWhitelist keeps no state, so one call from each table and for each
\* input is all it can do.
FilterWhitelistCall ==
    /\ fw.kind = "none"
    /\ \E results \in CandLists, found \in FindWhitelist :
          fw' = [kind |-> "filtered", results |-> results, found |-> found,
                 out |-> filterWhitelist(results, found)]
    /\ UNCHANGED <<poolVars, sw, storeVars, lockVars, callVars, monVars, bq, whitelist, channels, scan>>

\* scanRule with the unfiltered results handed to saveResults.
ScanRuleIngestUnfiltered ==
    /\ fw.kind = "none"
    /\ \E ruleID \in RuleIds, results \in CandLists, found \in FindWhitelist :
          /\ RowCount(storage) + Len(results) <= MaxRows
          /\ \E out \in saveResults(storage, ruleID, results) : storage' = out.storage
          /\ fw' = [kind |-> "saved", results |-> results, found |-> found,
                    out |-> filterWhitelist(results, found)]
    /\ UNCHANGED <<poolVars, sw, sv, lockVars, callVars, monVars, bq, whitelist, channels, scan>>

\* scanRule, lines 145-149, for the results of one rule's search:
\* filteredResults := m.filterWhitelist(results), then
\* m.saveResults(rule.ID, filteredResults).
ScanRuleIngest ==
    /\ fw.kind = "none"
    /\ \E ruleID \in RuleIds, results \in CandLists, found \in FindWhitelist :
          LET filteredResults == filterWhitelist(results, found) IN
          /\ RowCount(storage) + Len(filteredResults) <= MaxRows
          /\ \E out \in saveResults(storage, ruleID, filteredResults) :
                storage' = out.storage
          /\ fw' = [kind |-> "saved", results |-> results, found |-> found,
                    out |-> filteredResults]
    /\ UNCHANGED <<poolVars, sw, sv, lockVars, callVars, monVars, bq, whitelist, channels, scan>>

\* ----------------------------------------------------------- the scan
\* Most enabled rows the notification_configs table is let grow to.
MaxChannels == 1

\* API.CreateNotification with Enabled set.
CreateNotification ==
    /\ channels < MaxChannels
    /\ channels' = channels + 1
    /\ UNCHANGED <<poolVars, sw, storeVars, lockVars, callVars, monVars, bq, whitelist, fw, scan>>

\* API.DeleteNotification of an enabled row.
DeleteNotification ==
    /\ channels > 0
    /\ channels' = channels - 1
    /\ UNCHANGED <<poolVars, sw, storeVars, lockVars, callVars, monVars, bq, whitelist, fw, scan>>

\* The ways one SearchCode call can fail: a page request that fails, or
\* GetClient returning an error.
AttemptFailures ==
    { [err |-> PageErrorText(resp), cause |-> PageCause(resp)] :
          resp \in { r \in PageResponses : r.status # 200 } } \cup
    { [err |-> "failed to get client: " \o PoolErrorText([kind |-> k]), cause |-> k] :
          k \in {"exhausted", "notokens"} }

\* What SearchWithRetry can return to scanRule from the point w of its
\* loop on: the results of an attempt that succeeds, the error it ends
\* with, or the panic of GetClient's log line.
RECURSIVE RetryOutcomes(_)
RetryOutcomes(w) ==
    IF w.pc = "done"
    THEN { [kind |-> "err", err |-> w.result.err, cause |-> w.lastCause, results |-> <<>>] }
    ELSE IF w.i >= w.maxRetries
    THEN { [kind |-> "err", err |-> GiveUpResult(w).err, cause |-> w.lastCause,
            results |-> <<>>] }
    ELSE { [kind |-> "panic", err |-> "", cause |-> "none", results |-> <<>>] } \cup
         { [kind |-> "ok", err |-> "", cause |-> "none", results |-> r] : r \in CandLists } \cup
         UNION { RetryOutcomes(AfterFailure(w, f.err, f.cause)) : f \in AttemptFailures }

\* SearchWithRetry(ctx, opts, maxRetries), whatever the pool and GitHub answer.
SearchWithRetryOutcomes(maxRetries) ==
    RetryOutcomes([NoSearch EXCEPT !.pc = "loop", !.maxRetries = maxRetries])

\* scanRule, lines 136-139: the status recorded for a search that failed.
ScanStatus(err) ==
    IF err = "rate limit exceeded" THEN "rate_limited" ELSE "failed"

\* The scan_history row recordScanHistory creates; status "none": the row
\* could not be created. cause keeps what made the rule's scan fail.
NoHistory == [status |-> "none", cause |-> "none", new |-> 0]

\* recordScanHistory: Create(&history) succeeds or fails.
recordScanHistory(row) == { row, NoHistory }

\* pc: "idle" (run is not inside scan), "rules" (in scan's loop, about to
\* scan rules[k]), "results" (scanRule has the results of its search),
\* "crashed" (a panic ended the process); cycle: how the latest scan ended;
\* notified: the number of SendNotification calls made for the latest rule.
NoScan ==
    [pc |-> "idle", rules |-> <<>>, k |-> 0, results |-> <<>>, cycle |-> "none",
     hist |-> NoHistory, notified |-> 0]

\* scan, lines 81-92: the active rules are fetched, in the order of their
\* ids; when that fails scan returns.
ScanBegin ==
    /\ scan.pc = "idle"
    /\ \/ scan' = [scan EXCEPT !.cycle = "loadfailed", !.rules = <<>>, !.k = 0]
       \/ \E rules \in { <<>>, <<1>>, <<2>>, <<1, 2>> } :
             scan' = [scan EXCEPT !.pc = "rules", !.rules = rules, !.k = 1, !.cycle = "running"]
    /\ UNCHANGED <<poolVars, sw, storeVars, lockVars, callVars, monVars, bq, whitelist, fw, channels>>

\* scanRule, lines 104-143, and the sleep of scan's loop: the keywords do
\* not parse, or the search fails, panics or returns results.
ScanRuleSearch ==
    /\ scan.pc = "rules"
    /\ scan.k <= Len(scan.rules)
    /\ \/ \E h \in recordScanHistory([status |-> "failed", cause |-> "keywords", new |-> 0]) :
             scan' = [scan EXCEPT !.k = @ + 1, !.hist = h, !.notified = 0]
       \/ \E r \in SearchWithRetryOutcomes(ScanMaxRetries) :
             \/ /\ r.kind = "panic"
                /\ scan' = [scan EXCEPT !.pc = "crashed"]
             \/ /\ r.kind = "err"
                /\ \E h \in recordScanHistory([status |-> ScanStatus(r.err),
                                                cause |-> r.cause, new |-> 0]) :
                      scan' = [scan EXCEPT !.k = @ + 1, !.hist = h, !.notified = 0]
             \/ /\ r.kind = "ok"
                /\ scan' = [scan EXCEPT !.pc = "results", !.results = r.results]
    /\ UNCHANGED <<poolVars, sw, storeVars, lockVars, callVars, monVars, bq, whitelist, fw, channels>>

\* scanRule, lines 145-155, and the sleep of scan's loop: the results are
\* filtered and saved and the history row is written. scanRule makes no
\* call of notify.SendNotification, and nothing else in the program does.
ScanRuleSave ==
    /\ scan.pc = "results"
    /\ \E found \in FindWhitelist :
          LET filteredResults == filterWhitelist(scan.results, found) IN
          /\ RowCount(storage) + Len(filteredResults) <= MaxRows
          /\ \E out \in saveResults(storage, scan.rules[scan.k], filteredResults) :
                /\ storage' = out.storage
                /\ \E h \in recordScanHistory([status |-> "success", cause |-> "none",
                                                new |-> out.newCount]) :
                      scan' = [scan EXCEPT !.pc = "rules", !.k = @ + 1, !.results = <<>>,
                                           !.hist = h, !.notified = 0]
    /\ UNCHANGED <<poolVars, sw, sv, monVars, bq, whitelist, fw, channels, lockVars, callVars>>

\* scan, line 100: the loop over the rules is over.
ScanEnd ==
    /\ scan.pc = "rules"
    /\ scan.k > Len(scan.rules)
    /\ scan' = [scan EXCEPT !.pc = "idle", !.cycle = "completed"]
    /\ UNCHANGED <<poolVars, sw, storeVars, lockVars, callVars, monVars, bq, whitelist, fw, channels>>

NoUpdate == [kind |-> "none", before |-> NewTokenInfo,
             resp |-> [err |-> TRUE, core |-> NoRate], after |-> NewTokenInfo, err |-> FALSE]

\* t.UpdateRateLimit(ctx) on a token in any of its states: flagged or not,
\* without a snapshot or with one whose reset has passed (-1) or lies 1, 2
\* or ResetHorizon + 1 minutes ahead. It reads and writes nothing but the
\* token, so one call for each state and answer is all it can do.
UpdateRateLimitCall ==
    /\ ur.kind = "none"
    /\ \E t \in [IsAvailable : BOOLEAN,
                 RateLimit : { NoRate } \cup
                     { Rate(r, at) : r \in {0, ReserveThreshold, ReserveThreshold + 1},
                                     at \in {-1, 1, 2, ResetHorizon + 1} }],
          resp \in QuotaResponses :
          LET u == UpdateRateLimit(t, resp) IN
          ur' = [kind |-> "called", before |-> t, resp |-> resp, after |-> u.tok,
                 err |-> u.err]
    /\ UNCHANGED <<poolVars, sw, storeVars, lockVars, monVars, scanVars>>

\* ------------------------------------------------- the locks of the pool
\* The goroutines that use the pool: 0 is main, which runs RefreshAllTokens
\* and then serves the API requests (GetTokenStats); 1 .. MaxLoops are the
\* run() goroutines, whose scans call SearchCode.
PoolThreads == 0 .. MaxLoops

MainThread == 0

Scanners == 1 .. MaxLoops

\* sync.RWMutex: w is the goroutine holding it for writing (-1: none), r the
\* goroutines holding it for reading.
NoLock == [w |-> -1, r |-> {}]

\* mu.Lock() can return.
CanLock(mu) == mu.w = -1 /\ mu.r = {}

\* mu.RLock() can return.
CanRLock(mu) == mu.w = -1

Lock(mu, t) == [mu EXCEPT !.w = t]

RLock(mu, t) == [mu EXCEPT !.r = @ \cup {t}]

\* mu.Unlock() or mu.RUnlock() by the goroutine t that holds it.
Unlock(mu, t) == [w |-> IF mu.w = t THEN -1 ELSE mu.w, r |-> mu.r \ {t}]

Holds(mu, t) == mu.w = t \/ t \in mu.r

\* A goroutine outside the pool's methods.
NoThread == [pc |-> "idle", k |-> 0, startIndex |-> 0, attempts |-> 0, cont |-> FALSE]

\* No goroutine has panicked (a panic ends the process).
LockAlive == \A t \in PoolThreads : th[t].pc # "panic"

\* The fields of the pool a goroutine standing at th[t].pc is about to read
\* or write: f the field, k the token (-1 for the cursor), w a write.
Access(f, k, w) == [f |-> f, k |-> k, w |-> w]

Pending(t) ==
    LET k == th[t].k IN
    CASE th[t].pc = "rf_update" ->
            { Access("RateLimit", k, TRUE), Access("IsAvailable", k, TRUE) }
      [] th[t].pc = "gc_top" ->
            IF th[t].attempts < NTokens
            THEN { Access("currentIndex", -1, FALSE),
                   Access("IsAvailable", currentIndex, FALSE) }
            ELSE {}
      [] th[t].pc = "gc_update" ->
            { Access("RateLimit", k, TRUE), Access("IsAvailable", k, TRUE) }
      [] th[t].pc = "gc_has" -> { Access("RateLimit", k, FALSE) }
      [] th[t].pc = "gc_log" ->
            { Access("currentIndex", -1, FALSE), Access("RateLimit", k, FALSE) }
      [] th[t].pc = "gc_mark" -> { Access("IsAvailable", k, TRUE) }
      [] th[t].pc = "gc_next" -> { Access("currentIndex", -1, TRUE) }
      [] th[t].pc = "gc_reset" -> { Access("RateLimit", k, FALSE) }
      [] th[t].pc = "sc_log" ->
            { Access("RateLimit", k, FALSE), Access("IsAvailable", k, FALSE) }
      [] th[t].pc = "st_read" ->
            { Access("RateLimit", k, FALSE), Access("IsAvailable", k, FALSE) }
      [] OTHER -> {}

\* RefreshAllTokens, lines 299-310, and UpdateRateLimit, line 200: main
\* takes the lock of the next token (p.mu is held only to copy the slice).
RefreshLock ==
    /\ th[MainThread].pc = "idle"
    /\ refreshPos \in TokenIdx
    /\ CanLock(tmu[refreshPos])
    /\ tmu' = [tmu EXCEPT ![refreshPos] = Lock(@, MainThread)]
    /\ th' = [th EXCEPT ![MainThread] = [@ EXCEPT !.pc = "rf_update", !.k = refreshPos]]
    /\ UNCHANGED <<poolVars, pmu, sw, storeVars, monVars, scanVars, callVars>>

\* UpdateRateLimit, lines 203-218, for RefreshAllTokens: a failure is only logged.
RefreshUpdate ==
    /\ th[MainThread].pc = "rf_update"
    /\ \E resp \in QuotaResponses :
          tokens' = [tokens EXCEPT ![refreshPos] = UpdateRateLimit(@, resp).tok]
    /\ refreshPos' = refreshPos + 1
    /\ tmu' = [tmu EXCEPT ![refreshPos] = Unlock(@, MainThread)]
    /\ th' = [th EXCEPT ![MainThread] = NoThread]
    /\ UNCHANGED <<currentIndex, ret, prevIdx, pmu, sw, storeVars, monVars, scanVars, callVars>>

\* GetClient, lines 145-150: a scan's SearchCode enters GetClient.
GetClientLock(t) ==
    /\ LockAlive
    /\ refreshPos = NTokens
    /\ th[t].pc = "idle"
    /\ CanLock(pmu)
    /\ pmu' = Lock(pmu, t)
    /\ th' = [th EXCEPT ![t] = [NoThread EXCEPT !.pc = "gc_top",
                                                !.startIndex = currentIndex]]
    /\ UNCHANGED <<poolVars, tmu, sw, storeVars, monVars, scanVars, callVars>>

\* GetClient, lines 152-158 and 195: the loop test and the test of the flag
\* of the token at the cursor, under p.mu alone.
GetClientTest(t) ==
    /\ LockAlive
    /\ th[t].pc = "gc_top"
    /\ IF th[t].attempts >= NTokens
       THEN /\ pmu' = Unlock(pmu, t)
            /\ th' = [th EXCEPT ![t] = NoThread]
            /\ UNCHANGED tmu
       ELSE IF tokens[currentIndex].IsAvailable
       THEN /\ CanLock(tmu[currentIndex])
            /\ tmu' = [tmu EXCEPT ![currentIndex] = Lock(@, t)]
            /\ th' = [th EXCEPT ![t] = [@ EXCEPT !.pc = "gc_update", !.k = currentIndex]]
            /\ UNCHANGED pmu
       ELSE /\ th' = [th EXCEPT ![t] = [@ EXCEPT !.pc = "gc_next", !.cont = FALSE]]
            /\ UNCHANGED <<pmu, tmu>>
    /\ UNCHANGED <<poolVars, sw, storeVars, monVars, scanVars, callVars>>

\* UpdateRateLimit, lines 200-218, for GetClient; then line 159, and the
\* lock taken by what follows (markTokenUnavailable or HasRemainingCalls).
GetClientUpdate(t) ==
    /\ LockAlive
    /\ th[t].pc = "gc_update"
    /\ \E resp \in QuotaResponses :
          LET u == UpdateRateLimit(tokens[th[t].k], resp) IN
          /\ tokens' = [tokens EXCEPT ![th[t].k] = u.tok]
          /\ IF u.err
             THEN /\ th' = [th EXCEPT ![t] = [@ EXCEPT !.pc = "gc_mark", !.cont = TRUE]]
                  /\ UNCHANGED tmu
             ELSE /\ th' = [th EXCEPT ![t] = [@ EXCEPT !.pc = "gc_has"]]
                  /\ tmu' = [tmu EXCEPT ![th[t].k] = RLock(Unlock(@, t), t)]
    /\ UNCHANGED <<currentIndex, ret, prevIdx, refreshPos, pmu, sw, storeVars, monVars,
                   scanVars, callVars>>

\* HasRemainingCalls, lines 223-235, and GetClient, lines 168 and 179.
GetClientHas(t) ==
    /\ LockAlive
    /\ th[t].pc = "gc_has"
    /\ IF HasRemainingCalls(tokens[th[t].k], ReserveThreshold)
       THEN /\ th' = [th EXCEPT ![t] = [@ EXCEPT !.pc = "gc_log"]]
            /\ tmu' = [tmu EXCEPT ![th[t].k] = Unlock(@, t)]
       ELSE /\ th' = [th EXCEPT ![t] = [@ EXCEPT !.pc = "gc_mark", !.cont = FALSE]]
            /\ tmu' = [tmu EXCEPT ![th[t].k] = Lock(Unlock(@, t), t)]
    /\ UNCHANGED <<poolVars, pmu, sw, storeVars, monVars, scanVars, callVars>>

\* GetClient, lines 169-174: the log line reads the snapshot under p.mu
\* alone, and GetClient returns the token.
GetClientLog(t) ==
    /\ LockAlive
    /\ th[t].pc = "gc_log"
    /\ IF tokens[th[t].k].RateLimit.Nil
       THEN /\ th' = [th EXCEPT ![t] = [@ EXCEPT !.pc = "panic"]]
            /\ UNCHANGED pmu
       ELSE /\ th' = [th EXCEPT ![t] = [@ EXCEPT !.pc = "sc_page"]]
            /\ pmu' = Unlock(pmu, t)
    /\ UNCHANGED <<poolVars, tmu, sw, storeVars, monVars, scanVars, callVars>>

\* markTokenUnavailable, lines 239-245.
GetClientMark(t) ==
    /\ LockAlive
    /\ th[t].pc = "gc_mark"
    /\ tokens' = markTokenUnavailable(tokens, th[t].k)
    /\ tmu' = [tmu EXCEPT ![th[t].k] = Unlock(@, t)]
    /\ th' = [th EXCEPT ![t] = [@ EXCEPT !.pc = "gc_next"]]
    /\ UNCHANGED <<currentIndex, ret, prevIdx, refreshPos, pmu, sw, storeVars, monVars,
                   scanVars, callVars>>

\* GetClient, lines 162-164 and 182-187: nextToken, attempts++, and either
\* `continue` or the all-cycled test, which begins getNextResetTime.
GetClientNext(t) ==
    /\ LockAlive
    /\ th[t].pc = "gc_next"
    /\ currentIndex' = nextToken(currentIndex)
    /\ IF /\ ~th[t].cont
          /\ currentIndex' = th[t].startIndex
          /\ th[t].attempts + 1 = NTokens
       THEN /\ CanRLock(tmu[0])
            /\ tmu' = [tmu EXCEPT ![0] = RLock(@, t)]
            /\ th' = [th EXCEPT ![t] = [@ EXCEPT !.pc = "gc_reset", !.k = 0,
                                                 !.attempts = @ + 1]]
       ELSE /\ th' = [th EXCEPT ![t] = [@ EXCEPT !.pc = "gc_top", !.cont = FALSE,
                                                 !.attempts = @ + 1]]
            /\ UNCHANGED tmu
    /\ UNCHANGED <<tokens, ret, prevIdx, refreshPos, pmu, sw, storeVars, monVars, scanVars, callVars>>

\* getNextResetTime, lines 253-268, token by token, and GetClient, lines
\* 188-191, after the last one.
GetClientReset(t) ==
    /\ LockAlive
    /\ th[t].pc = "gc_reset"
    /\ IF th[t].k + 1 < NTokens
       THEN /\ CanRLock(tmu[th[t].k + 1])
            /\ tmu' = [tmu EXCEPT ![th[t].k] = Unlock(@, t),
                                  ![th[t].k + 1] = RLock(@, t)]
            /\ th' = [th EXCEPT ![t] = [@ EXCEPT !.k = @ + 1]]
            /\ UNCHANGED pmu
       ELSE /\ tmu' = [tmu EXCEPT ![th[t].k] = Unlock(@, t)]
            /\ IF ResetsSoon(getNextResetTime(tokens))
               THEN /\ pmu' = Unlock(pmu, t)
                    /\ th' = [th EXCEPT ![t] = NoThread]
               ELSE /\ th' = [th EXCEPT ![t] = [@ EXCEPT !.pc = "gc_top"]]
                    /\ UNCHANGED pmu
    /\ UNCHANGED <<poolVars, sw, storeVars, monVars, scanVars, callVars>>

\* SearchCode, lines 72-82: a page request made with the client of token
\* th[t].k is answered.
SearchCodeAnswer(t) ==
    /\ LockAlive
    /\ th[t].pc = "sc_page"
    /\ \E resp \in PageResponses :
          th' = [th EXCEPT ![t] = IF resp.status = 403
                                  THEN [@ EXCEPT !.pc = "sc_log"]
                                  ELSE NoThread]
    /\ UNCHANGED <<poolVars, pmu, tmu, sw, storeVars, monVars, scanVars, callVars>>

\* SearchCode, line 78: log.Printf("... %+v", tokenInfo) has read the fields
\* of the token.
SearchCodeLog(t) ==
    /\ LockAlive
    /\ th[t].pc = "sc_log"
    /\ th' = [th EXCEPT ![t] = NoThread]
    /\ UNCHANGED <<poolVars, pmu, tmu, sw, storeVars, monVars, scanVars, callVars>>

\* GetTokenStats, lines 272-278: an API request takes p.mu and the lock of
\* the first token, both for reading.
GetTokenStatsLock ==
    /\ LockAlive
    /\ refreshPos = NTokens
    /\ th[MainThread].pc = "idle"
    /\ CanRLock(pmu)
    /\ CanRLock(tmu[0])
    /\ pmu' = RLock(pmu, MainThread)
    /\ tmu' = [tmu EXCEPT ![0] = RLock(@, MainThread)]
    /\ th' = [th EXCEPT ![MainThread] = [NoThread EXCEPT !.pc = "st_read"]]
    /\ UNCHANGED <<poolVars, sw, storeVars, monVars, scanVars, callVars>>

\* GetTokenStats, lines 279-295: one token's fields are read.
GetTokenStatsRead ==
    /\ LockAlive
    /\ th[MainThread].pc = "st_read"
    /\ LET k == th[MainThread].k IN
       IF k + 1 < NTokens
       THEN /\ CanRLock(tmu[k + 1])
            /\ tmu' = [tmu EXCEPT ![k] = Unlock(@, MainThread),
                                  ![k + 1] = RLock(@, MainThread)]
            /\ th' = [th EXCEPT ![MainThread] = [@ EXCEPT !.k = k + 1]]
            /\ UNCHANGED pmu
       ELSE /\ tmu' = [tmu EXCEPT ![k] = Unlock(@, MainThread)]
            /\ pmu' = Unlock(pmu, MainThread)
            /\ th' = [th EXCEPT ![MainThread] = NoThread]
    /\ UNCHANGED <<poolVars, sw, storeVars, monVars, scanVars, callVars>>

\* ------------------------------------------------------ the specifications
PoolStart ==
    /\ tokens = [i \in TokenIdx |-> NewTokenInfo]
    /\ currentIndex = 0
    /\ ret = NoRet
    /\ prevIdx = -1
    /\ refreshPos = 0

StoreStart == storage = [r \in Rows |-> 0] /\ sv = NoSave

\* NewMonitorService: stopped, an unbuffered stopChan, no goroutine.
MonitorStart ==
    /\ isRunning = FALSE
    /\ api = [t \in Threads |-> "idle"]
    /\ loops = [p \in LoopPcs |-> 0]
    /\ stopDone = FALSE

ScanStart ==
    /\ bq = NoQuery
    /\ whitelist = <<>>
    /\ fw = NoFilter
    /\ channels = 0
    /\ scan = NoScan

\* NewTokenPool: the zero value of every mutex; no goroutine in the pool.
LockStart ==
    /\ pmu = NoLock
    /\ tmu = [i \in TokenIdx |-> NoLock]
    /\ th = [t \in PoolThreads |-> NoThread]

Init ==
    /\ PoolStart /\ sw = NoSearch /\ StoreStart /\ MonitorStart /\ ScanStart /\ LockStart
    /\ ur = NoUpdate

PoolNext ==
    \/ GetClient
    \/ RefreshAllTokens
    \/ Tick

SpecPool == Init /\ [][PoolNext]_vars

SearchNext ==
    \/ RefreshAllTokens
    \/ SearchWithRetryCall
    \/ SearchCodeBegin
    \/ SearchCodePage
    \/ SearchCodePageDelay
    \/ SearchWithRetryBackoff
    \/ CancelContext
    \/ SearchWithRetryGiveUp
    \/ SearchWithRetryReturn

SpecSearch == Init /\ [][SearchNext]_vars

StoreNext == SaveResultsCall

SpecStore == Init /\ [][StoreNext]_vars

MonitorNext ==
    \/ \E t \in Threads : StartCheck(t)
    \/ \E t \in Threads : StartSpawn(t)
    \/ \E t \in Threads : StopCheck(t)
    \/ \E t \in Threads : StopFinish(t)
    \/ \E t \in Threads : RunReceiveStop(t)
    \/ RunInitialScan
    \/ \E p \in LoopPcs : RunScanReturns(p)
    \/ RunTick

SpecMonitor == Init /\ [][MonitorNext]_vars

QueryNext ==
    \/ BuildQueryCall
    \/ ScanRuleOptions

SpecQuery == Init /\ [][QueryNext]_vars

FilterNext ==
    \/ CreateWhitelist
    \/ DeleteWhitelist
    \/ FilterWhitelistCall
    \/ ScanRuleIngest

SpecFilter == Init /\ [][FilterNext]_vars

ScanNext ==
    \/ CreateNotification
    \/ DeleteNotification
    \/ ScanBegin
    \/ ScanRuleSearch
    \/ ScanRuleSave
    \/ ScanEnd

SpecScan == Init /\ [][ScanNext]_vars

LocksNext ==
    \/ RefreshLock
    \/ RefreshUpdate
    \/ \E t \in Scanners : GetClientLock(t)
    \/ \E t \in Scanners : GetClientTest(t)
    \/ \E t \in Scanners : GetClientUpdate(t)
    \/ \E t \in Scanners : GetClientHas(t)
    \/ \E t \in Scanners : GetClientLog(t)
    \/ \E t \in Scanners : GetClientMark(t)
    \/ \E t \in Scanners : GetClientNext(t)
    \/ \E t \in Scanners : GetClientReset(t)
    \/ \E t \in Scanners : SearchCodeAnswer(t)
    \/ \E t \in Scanners : SearchCodeLog(t)
    \/ GetTokenStatsLock
    \/ GetTokenStatsRead

SpecLocks == Init /\ [][LocksNext]_vars

RefreshNext == UpdateRateLimitCall

SpecRefresh == Init /\ [][RefreshNext]_vars

\* ------------------------------------------------ claims on the token pool

\* The answers of a quota endpoint that reports ample quota for every token.
AmpleResponses == { r \in QuotaResponses : ~r.err /\ r.core.Remaining > ReserveThreshold }

\* Every token is flagged available and its snapshot shows quota above the reserve.
AllAmple ==
    \A i \in TokenIdx : /\ tokens[i].IsAvailable
                         /\ ~tokens[i].RateLimit.Nil
                         /\ tokens[i].RateLimit.Remaining > ReserveThreshold

\* C1 as stated: with every credential ample, an acquire that follows a
\* successful acquire returns the next credential in cyclic order, and every
\* successful acquire leaves the cursor one past the credential it returned.
C1_RoundRobinAdvance ==
    /\ (ret.kind = "ok" => currentIndex = nextToken(ret.idx))
    /\ (prevIdx # -1 /\ ret.kind = "ok" /\ AllAmple => ret.idx = nextToken(prevIdx))

\* C1 amended: a successful acquire leaves the cursor on the credential it
\* returned, so with every credential ample consecutive acquires return the
\* same credential; the cursor moves only past credentials acquire rejects.
C1_StickyCursor ==
    /\ (ret.kind = "ok" => currentIndex = ret.idx)
    /\ (prevIdx # -1 /\ ret.kind = "ok" /\ AllAmple => ret.idx = prevIdx)

C1_Witness == prevIdx # -1 /\ ret.kind = "ok" /\ AllAmple /\ ret.idx = prevIdx

\* C2 as stated: an acquire during which the quota endpoint reports ample
\* quota to every refresh succeeds whatever the availability flags are,
\* because a credential flagged unavailable is refreshed and flagged
\* available again inside acquire.
C2_RecoveryInAcquire ==
    [][GetClientUnder(AmpleResponses) /\ UNCHANGED <<sw, storeVars, lockVars, callVars, monVars, scanVars>>
          => ret'.kind = "ok"]_vars

\* C3: a credential that acquire returns has a snapshot whose remaining
\* quota is above the reserve threshold or whose reset instant has passed.
C3_ReturnedHasQuota ==
    ret.kind = "ok" =>
        LET r == tokens[ret.idx].RateLimit IN
        ~r.Nil /\ (r.Remaining > ReserveThreshold \/ r.Reset < 0)

C3_Witness ==
    /\ ret.kind = "ok"
    /\ tokens[ret.idx].RateLimit.Remaining > ReserveThreshold
    /\ tokens[ret.idx].RateLimit.Reset >= 0

\* Every token has a snapshot with no quota above the reserve and a reset
\* instant more than 5 minutes ahead.
AllDrainedFar ==
    \A i \in TokenIdx : /\ ~tokens[i].RateLimit.Nil
                         /\ tokens[i].RateLimit.Remaining <= ReserveThreshold
                         /\ tokens[i].RateLimit.Reset > ResetHorizon

\* C11 as stated: an acquire that leaves every credential with remaining
\* <= 10 and a reset instant more than 5 minutes ahead has failed with the
\* typed error that names the earliest reset instant.
C11_TypedBeyondHorizon ==
    ret.kind # "none" /\ AllDrainedFar => ret.kind = "exhausted"

\* C11 amended: such an acquire fails with the generic "no available tokens"
\* error; the typed error is returned only when the earliest reset instant
\* is less than 5 minutes away.
C11_GenericBeyondHorizon ==
    /\ ret.kind # "none" /\ AllDrainedFar => ret.kind = "notokens"
    /\ ret.kind = "exhausted" => ret.at < ResetHorizon

C11_Witness == ret.kind = "notokens" /\ AllDrainedFar

\* The token at the cursor is flagged available and the reset instant of
\* its snapshot has passed.
PassedAtCursor ==
    /\ tokens[currentIndex].IsAvailable
    /\ ~tokens[currentIndex].RateLimit.Nil
    /\ tokens[currentIndex].RateLimit.Reset < 0

\* C12 as stated: an acquire that finds at the cursor a credential flagged
\* available whose snapshot's reset instant has passed returns this
\* credential, and with no quota call made for it the snapshots and flags
\* are what they were.
C12_ReplenishedWithoutRefresh ==
    [][GetClient /\ PassedAtCursor =>
          ret'.kind = "ok" /\ ret'.idx = currentIndex /\ tokens' = tokens]_vars

\* C20 as stated: an acquire that fails returns the typed error exactly
\* when the earliest reset instant over all credentials is within 5
\* minutes, and the generic error otherwise, however the last credential
\* of the cycle was rejected.
C20_HorizonDecides ==
    [][GetClient /\ ret'.kind \in {"exhausted", "notokens"} =>
          (ret'.kind = "exhausted" <=> ResetsSoon(getNextResetTime(tokens')))]_vars

\* ------------------------------------------- claims on the search service

\* C8: a call that succeeds on attempt k made exactly k attempts, k is at
\* most maxRetries, and it slept j*10 seconds after the j-th failed attempt.
C8_RetryBackoff ==
    sw.pc = "done" /\ sw.result.kind = "ok" =>
        /\ sw.attempts <= sw.maxRetries
        /\ Len(sw.sleeps) = sw.attempts - 1
        /\ \A j \in 1 .. Len(sw.sleeps) : sw.sleeps[j] = j * 10
        /\ Contains(sw.lastErr, "rate limit") \/ sw.attempts = 1

C8_Witness ==
    /\ sw.pc = "done" /\ sw.result.kind = "ok"
    /\ sw.maxRetries = 3 /\ sw.attempts = 3 /\ sw.sleeps = <<10, 20>>

C18_CancellationPropagates ==
    sw.ctx = "observed" =>
        /\ sw.pc = "done"
        /\ sw.result.kind = "err"
        /\ Contains(sw.result.err, "context canceled")
        /\ Len(sw.sleeps) = sw.sleepsAtCancel

\* C10: one search requests the pages 1, 2, ... in this order, goes on to
\* the next page only after a page with items, and never requests more
\* than 10 pages.
C10_PaginationCeiling ==
    /\ Len(sw.pageLog) <= MaxPages
    /\ \A k \in 1 .. Len(sw.pageLog) : sw.pageLog[k] = k
    /\ sw.pc = "page" =>
          /\ sw.page = Len(sw.pageLog) + 1
          /\ Len(sw.pageLog) > 0 => sw.lastItems > 0
    /\ sw.pc = "done" /\ sw.result.kind = "ok" =>
          sw.lastItems = 0 \/ Len(sw.pageLog) = MaxPages

C10_Witness ==
    /\ sw.pc = "done" /\ sw.result.kind = "ok"
    /\ Len(sw.pageLog) = MaxPages /\ sw.lastItems > 0

\* ------------------------------------------------- claims on the storage

\* C6 as stated: no two rows of the table have the same (rule id,
\* repository full name, file path).
C6_UniqueKey == \A r \in DOMAIN storage : storage[r] <= 1

C4_SingleLoop == AliveLoops <= 1

\* C5 as stated: two scans never run at the same time, and after a Stop
\* has returned no scan runs until a Start sets isRunning again.
C5_NoScanAfterStop ==
    /\ Scanning <= 1
    /\ stopDone => Scanning = 0

\* ------------------------------------------------- claims on the query

\* Number of places of str where sub starts.
Occurrences(str, sub) ==
    Cardinality({ k \in 1 .. (Len(str) - Len(sub) + 1) :
                    SubSeq(str, k, k + Len(sub) - 1) = sub })

RECURSIVE TotalLen(_)
TotalLen(strs) == IF Len(strs) = 0 THEN 0 ELSE Len(strs[1]) + TotalLen(Tail(strs))

NonEmpty(str) == str # ""

\* C17: keywords ["password","api_key"] with excluded extensions ["md"]
\* give "password" "api_key" -extension:md in the quoting mode and
\* password api_key -extension:md in the fuzzy mode; and in general the
\* query is the non-empty keywords in input order (each in quotes in the
\* quoting mode, bare otherwise) with one space between two of them,
\* followed by one -extension clause for each non-empty excluded extension.
C17_QueryBuilding ==
    bq.kind = "built" /\ bq.opts.Language = "" =>
        LET kws == SelectSeq(bq.opts.Keywords, NonEmpty)
            exts == SelectSeq(bq.opts.ExcludeExts, NonEmpty)
            quoted == bq.opts.MatchType = "precise"
            clause == " -extension:"
            kwLen == TotalLen(kws) + (IF quoted THEN 2 * Len(kws) ELSE 0)
                                   + (IF Len(kws) > 0 THEN Len(kws) - 1 ELSE 0)
        IN /\ bq.opts.Keywords = <<"password", "api_key">> /\ bq.opts.ExcludeExts = <<"md">> =>
                 bq.query = IF quoted THEN "\"password\" \"api_key\" -extension:md"
                            ELSE "password api_key -extension:md"
           /\ Occurrences(bq.query, clause) = Len(exts)
           /\ Occurrences(bq.query, "\"") = IF quoted THEN 2 * Len(kws) ELSE 0
           /\ Len(bq.query) = kwLen + Len(exts) * Len(clause)
                                + TotalLen([k \in 1 .. Len(exts) |-> TrimPrefix(exts[k], ".")])
           /\ Occurrences(SubSeq(bq.query, 1, kwLen), clause) = 0
           /\ Len(exts) > 0 => SubSeq(bq.query, kwLen + 1, kwLen + Len(clause)) = clause
           /\ \A k \in 1 .. Len(kws) :
                 Contains(bq.query, IF quoted THEN "\"" \o kws[k] \o "\"" ELSE kws[k])
           /\ Len(kws) = 2 =>
                 Contains(bq.query, IF quoted THEN "\"" \o kws[1] \o "\" \"" \o kws[2] \o "\""
                                    ELSE kws[1] \o " " \o kws[2])

C17_Witness ==
    /\ bq.kind = "built"
    /\ bq.opts = [Keywords |-> <<"password", "api_key">>, MatchType |-> "precise",
                  ExcludeExts |-> <<"md">>, Language |-> ""]
    /\ bq.query = "\"password\" \"api_key\" -extension:md"

\* --------------------------------------------- claims on the whitelist

\* The text of fullName before its first '/' is owner.
OwnerIs(fullName, owner) ==
    /\ Len(fullName) > Len(owner)
    /\ SubSeq(fullName, 1, Len(owner) + 1) = owner \o "/"
    /\ ~Contains(owner, "/")

\* Some entry is a repository entry with the candidate's full name, or a
\* user entry with the candidate's owner.
Suppressed(c, entries) ==
    \E k \in 1 .. Len(entries) :
        \/ entries[k].Type = "repo" /\ entries[k].Value = c.RepoFullName
        \/ entries[k].Type = "user" /\ OwnerIs(c.RepoFullName, entries[k].Value)

\* C16: what filterWhitelist returns is its input, in order, without the
\* candidates that an entry of the whitelist it read suppresses; the user
\* entry "octo" suppresses octo/secrets and not octocat/other; and a
\* whitelist without entries gives the input back.
C16_Suppression ==
    fw.kind = "filtered" =>
        LET kept(c) == ~Suppressed(c, fw.found.rows) IN
        /\ fw.out = SelectSeq(fw.results, kept)
        /\ Len(fw.found.rows) = 0 => fw.out = fw.results
        /\ fw.found.rows = <<[Type |-> "user", Value |-> "octo"]>> =>
              \A k \in 1 .. Len(fw.out) : fw.out[k].RepoFullName = "octocat/other"

C16_Witness ==
    /\ fw.kind = "filtered"
    /\ fw.found.rows = <<[Type |-> "user", Value |-> "octo"]>>
    /\ fw.results = <<[RepoFullName |-> "octo/secrets", FilePath |-> "config.env"],
                      [RepoFullName |-> "octocat/other", FilePath |-> "config.env"]>>
    /\ fw.out = <<[RepoFullName |-> "octocat/other", FilePath |-> "config.env"]>>

\* C19: the first thing a run() goroutine does after Start created it is
\* to begin a scan, with no tick taken before; every other scan begins when
\* a goroutine waiting in its select takes a tick, and a goroutine comes to
\* its select only by finishing a scan.
C19_InitialThenTicks ==
    [][/\ loops'["start"] < loops["start"] =>
             loops'["initscan"] = loops["initscan"] + 1
       /\ loops'["initscan"] > loops["initscan"] =>
             loops'["start"] = loops["start"] - 1
       /\ loops'["tickscan"] > loops["tickscan"] =>
             loops'["select"] = loops["select"] - 1
       /\ loops'["select"] > loops["select"] =>
             loops'["initscan"] + loops'["tickscan"]
                 = loops["initscan"] + loops["tickscan"] - 1]_vars

C19_Witness == loops["tickscan"] = 1 /\ isRunning

\* ---------------------------------------------------- claims on the scan

\* C13 as stated: no failure in a rule's scan ends the process, and a
\* scan that got the list of the active rules ends only after scanRule was
\* called for each of them.
C13_RuleIsolation ==
    /\ scan.pc # "crashed"
    /\ scan.cycle = "completed" => scan.k = Len(scan.rules) + 1

\* C14 as stated: the history row of a rule has status "rate_limited" when
\* the search gave up after a 403 answer, "failed" when the rule's scan
\* failed for another reason, and "success" when the search succeeded.
C14_StatusClassification ==
    scan.hist.status # "none" =>
        /\ scan.hist.status = "rate_limited" <=> scan.hist.cause = "http403"
        /\ scan.hist.status = "success" <=> scan.hist.cause = "none"
        /\ scan.hist.status \in {"rate_limited", "success", "failed"}

\* C15 as stated: a rule's scan that saved new results has called the
\* notifier once for each enabled channel.
C15_NotifyOnNew ==
    [][scan'.hist # scan.hist /\ scan'.hist.status = "success" /\ scan'.hist.new > 0
          => scan'.notified = channels]_vars

\* ------------------------------------------- claims of the third sitting

\* C21 (as stated): within one search an acquire on the pool precedes every
\* page request, so a search that has requested k pages has made k acquires.
C21_AcquirePerPage ==
    Len(sw.pageLog) >= 1 => sw.acquires = Len(sw.pageLog)

\* C21 (amended): one search makes exactly one acquire, before its first
\* page request, however many pages it requests; with no client no page is
\* requested.
C21_OneAcquirePerSearch ==
    /\ (sw.pc = "page" \/ Len(sw.pageLog) >= 1) => sw.acquires = 1
    /\ sw.pc = "page" => ret.kind = "ok"
    /\ sw.acquires = 0 => sw.pageLog = <<>>

C21_Witness ==
    /\ Len(sw.pageLog) >= 3
    /\ sw.acquires = 1

\* Every access about to be made is made holding p.mu or that token's mu.
LockHeld ==
    \A t \in PoolThreads : \A a \in Pending(t) :
        \/ Holds(pmu, t)
        \/ a.k \in TokenIdx /\ Holds(tmu[a.k], t)

\* No read or write of a field overlaps a write of the same field by
\* another goroutine.
NoOverlap ==
    \A t1, t2 \in PoolThreads : \A a1 \in Pending(t1), a2 \in Pending(t2) :
        t1 # t2 /\ a1.f = a2.f /\ a1.k = a2.k => ~a1.w /\ ~a2.w

\* C22: every read and write of the cursor and of a token's flag and
\* snapshot is made holding p.mu or that token's mu, so that no access of
\* one goroutine overlaps a write of the same field by another.
C22_PoolLocking == LockHeld /\ NoOverlap

\* C23: the waits are preemptible: a sleep that is in progress when ctx is
\* cancelled, or begun after it, ends with the call returning ctx's error
\* instead of running its full duration and going on.
C23_WaitsPreemptible ==
    [][sw.pc \in {"backoff", "pagewait"} /\ sw.ctx # "live" /\ sw' # sw
          => /\ sw'.pc = "done"
             /\ sw'.result.kind = "err"
             /\ Contains(sw'.result.err, "context canceled")]_vars

\* C24: every scan of a rule records exactly one outcome: the step that ends
\* it, on whichever path, leaves one history row written for the rule, and
\* none ends without a row.
C24_OneOutcomePerRule ==
    [][scan.pc \in {"rules", "results"}
          /\ (scan'.k = scan.k + 1 \/ scan'.pc = "crashed")
          => /\ scan'.pc = "rules"
             /\ scan'.hist.status \in {"success", "failed", "rate_limited"}]_vars

\* The rule texts that are JSON arrays of strings (or null).
WellFormedKeywords ==
    { "[\"password\"]", "[\"password\",\"api_key\"]", "[]", "[\"\"]", "[\"\",\"\"]", "null" }

WellFormedExts == { "", "[]", "[\".env\"]", "[\"md\",\".env\"]" }

\* C25 (as stated): a rule whose keywords or excluded extensions are not
\* validly encoded is skipped: scanRule ends before any search, with a
\* failed outcome.
C25_MalformedSkipped ==
    bq.kind \in {"skipped", "searched"}
        /\ (bq.rule.Keywords \notin WellFormedKeywords
               \/ bq.rule.ExcludeExts \notin WellFormedExts)
        => bq.kind = "skipped" /\ bq.status = "failed"

\* C25 (amended): a rule is skipped, with status failed handed to
\* recordScanHistory and no query built, exactly when its keywords are not
\* validly encoded; excluded extensions that are not validly encoded are
\* replaced by the empty list and the rule is searched without exclusions.
C25_MalformedKeywordsSkipped ==
    bq.kind \in {"skipped", "searched"} =>
        /\ bq.kind = "skipped" <=> bq.rule.Keywords \notin WellFormedKeywords
        /\ bq.kind = "skipped" => bq.status = "failed" /\ bq.query = "" /\ bq.opts = <<>>
        /\ bq.kind = "searched" /\ bq.rule.ExcludeExts \notin WellFormedExts =>
              /\ bq.opts.ExcludeExts = <<>>
              /\ ~Contains(bq.query, "-extension:")
        /\ bq.kind = "searched" /\ bq.rule.ExcludeExts = "[\"md\",\".env\"]" =>
              bq.opts.ExcludeExts = <<"md", ".env">>

C25_Witness ==
    /\ bq.kind = "searched"
    /\ bq.rule = [Keywords |-> "[\"password\",\"api_key\"]", MatchType |-> "precise",
                  ExcludeExts |-> "[md]"]
    /\ bq.query = "\"password\" \"api_key\""

\* The rows a step has inserted into the search_results table.
Inserted == { row \in Rows : storage'[row] > storage[row] }

\* C26 (as stated): what a scan inserts into storage is never a candidate
\* whose repository or owner is on the whitelist at the time of the scan,
\* whether or not the whitelist could be loaded.
C26_NoWhitelistedInserted ==
    [][fw.kind = "none" /\ fw'.kind = "saved"
          => \A row \in Inserted : ~Suppressed(row, whitelist)]_vars

\* C26 (amended): saveResults receives the output of filterWhitelist, so
\* every row a scan inserts is a candidate of that output; when the
\* whitelist was loaded no inserted row is on it, and when loading it
\* failed the output is the whole input, whitelisted candidates included.
C26_FilterOutputInserted ==
    [][fw.kind = "none" /\ fw'.kind = "saved"
          => /\ \A row \in Inserted :
                   \E k \in 1 .. Len(fw'.out) :
                       /\ fw'.out[k].RepoFullName = row.RepoFullName
                       /\ fw'.out[k].FilePath = row.FilePath
             /\ ~fw'.found.err => \A row \in Inserted : ~Suppressed(row, whitelist)
             /\ fw'.found.err => fw'.out = fw'.results]_vars

C26_Witness ==
    /\ fw.kind = "saved"
    /\ ~fw.found.err
    /\ fw.found.rows = <<[Type |-> "user", Value |-> "octo"]>>
    /\ Len(fw.results) = 2 /\ Len(fw.out) = 1
    /\ \E row \in Rows : storage[row] = 1 /\ row.RepoFullName = "octocat/other"
    /\ \A row \in Rows : row.RepoFullName = "octo/secrets" => storage[row] = 0

\* The call gave up: its error is the one made at line 224.
GaveUp ==
    /\ sw.pc = "done"
    /\ sw.result.kind = "err"
    /\ Len(sw.result.err) >= 20
    /\ SubSeq(sw.result.err, 1, 20) = "max retries exceeded"

\* C27: SearchWithRetry makes at most maxRetries attempts; when it gives up,
\* every one of its maxRetries attempts has failed with a rate-limit error
\* and its error wraps the last of them, which is not nil, whatever
\* maxRetries is.
C27_GiveUpWrapsLastError ==
    /\ sw.attempts <= sw.maxRetries
    /\ GaveUp =>
          /\ sw.attempts = sw.maxRetries
          /\ sw.lastCause # "none"
          /\ Contains(sw.lastErr, "rate limit")
          /\ sw.result.err = "max retries exceeded: " \o sw.lastErr

\* C28 (as stated): an UpdateRateLimit that succeeds has replaced the
\* snapshot by what the quota endpoint reported, and has set the flag if the
\* new remaining is above 10 and left it as it was otherwise.
C28_SuccessReplacesSnapshot ==
    ur.kind = "called" /\ ~ur.err =>
        /\ ur.after.RateLimit = ur.resp.core
        /\ ur.after.IsAvailable =
              (IF ur.resp.core.Remaining > 10 THEN TRUE ELSE ur.before.IsAvailable)

\* C28 (amended): an UpdateRateLimit that succeeds with an answer that
\* carries the core resource has replaced the snapshot by it and has set
\* the flag if the new remaining is above 10, leaving the flag as it was
\* otherwise (a flag that was false stays false); one that succeeds with an
\* answer without the core resource, and one that fails, leave snapshot and
\* flag as they were.
C28_CoreReplacesSnapshot ==
    ur.kind = "called" =>
        /\ ur.err = ur.resp.err
        /\ ~ur.resp.err /\ ~ur.resp.core.Nil =>
              /\ ur.after.RateLimit = ur.resp.core
              /\ ur.after.IsAvailable =
                    (IF ur.resp.core.Remaining > 10 THEN TRUE ELSE ur.before.IsAvailable)
        /\ ur.resp.err \/ ur.resp.core.Nil => ur.after = ur.before

C28_Witness ==
    /\ ur.kind = "called" /\ ~ur.err
    /\ ~ur.before.IsAvailable /\ ~ur.after.IsAvailable
    /\ ur.before.RateLimit = Rate(0, 1)
    /\ ur.after.RateLimit = Rate(10, 6)

\* The rule texts that are a keyword list without a non-empty keyword.
EmptyKeywordLists == { "[]", "null", "[\"\"]", "[\"\",\"\"]" }

\* C29 (as stated): a rule whose keyword list is empty or holds only empty
\* strings is rejected as malformed before any query is built or search made.
C29_EmptyKeywordsRejected ==
    bq.kind \in {"skipped", "searched"} /\ bq.rule.Keywords \in EmptyKeywordLists
        => bq.kind = "skipped" /\ bq.status = "failed" /\ bq.query = ""

\* C29 (amended): a rule whose keyword list is empty or holds only empty
\* strings is not rejected: scanRule goes on to the search, and the query
\* built for it has no keyword term, only the exclusion clauses of the
\* rule, if any.
C29_EmptyKeywordsSearched ==
    bq.kind \in {"skipped", "searched"} /\ bq.rule.Keywords \in EmptyKeywordLists
        => /\ bq.kind = "searched"
           /\ bq.status = ""
           /\ \A k \in 1 .. Len(bq.opts.Keywords) : bq.opts.Keywords[k] = ""
           /\ bq.query = (CASE bq.rule.ExcludeExts = "[\".env\"]" -> " -extension:env"
                            [] bq.rule.ExcludeExts = "[\"md\",\".env\"]" ->
                                   " -extension:md -extension:env"
                            [] OTHER -> "")

C29_Witness ==
    /\ bq.kind = "searched"
    /\ bq.rule = [Keywords |-> "[\"\",\"\"]", MatchType |-> "precise", ExcludeExts |-> ""]
    /\ bq.opts.Keywords = <<"", "">>
    /\ bq.query = ""

\* C30: the pool holds the tokens it was built with, at least one, and the
\* cursor is always the index of one of them.
C30_MembershipAndCursor ==
    /\ NTokens >= 1
    /\ DOMAIN tokens = 0 .. (NTokens - 1)
    /\ currentIndex \in 0 .. (NTokens - 1)
    /\ ret.kind = "ok" => ret.idx \in DOMAIN tokens

\* An acquire has passed over every token and the cursor has come round to
\* the first one.
C30_Witness ==
    /\ ret.kind \in {"exhausted", "notokens"}
    /\ currentIndex = 0
    /\ \A i \in TokenIdx : ~tokens[i].IsAvailable

\* ------------------------------------------ claims of the fourth sitting

\* A scan's acquire made when the quotas have reset upstream: the quota
\* endpoint answers every refresh of the call with ample quota.
GetClientAmple ==
    GetClientUnder(AmpleResponses)
        /\ UNCHANGED <<sw, storeVars, lockVars, callVars, monVars, scanVars>>

\* The pool as the running program drives it: main's RefreshAllTokens
\* comes to its end, time passes, and the ticker's scans keep calling
\* GetClient, again and again at times when the quotas have reset.
SpecPoolLive ==
    /\ Init /\ [][PoolNext]_vars
    /\ WF_vars(RefreshAllTokens)
    /\ WF_vars(Tick)
    /\ SF_vars(GetClientAmple)

\* After main's refresh, every token is flagged unavailable.
AllFlaggedUnavailable ==
    refreshPos = NTokens /\ \A i \in TokenIdx : ~tokens[i].IsAvailable

\* C31 (as stated): the pool does not stay exhausted: after every
\* credential was flagged unavailable, some later acquire succeeds once the
\* quotas have reset upstream.
C31_PoolRecovers == AllFlaggedUnavailable ~> (ret.kind = "ok")

\* The monitor as the Go scheduler runs it: a goroutine that can take a
\* step takes it, every scan returns, and a run() goroutine that comes to
\* its select again and again while a Stop is sending takes the value in
\* the end. Requests arrive when the users of the API make them.
SpecMonitorLive ==
    /\ Init /\ [][MonitorNext]_vars
    /\ WF_vars(RunInitialScan)
    /\ \A p \in LoopPcs : WF_vars(RunScanReturns(p))
    /\ \A t \in Threads : /\ WF_vars(StartSpawn(t))
                           /\ WF_vars(StopFinish(t))
                           /\ SF_vars(RunReceiveStop(t))

\* C32 (as stated): every Stop call returns in the end, also when two Stop
\* calls are made at the same time and when Stop is called during the
\* initial scan.
C32_StopReturns ==
    \A t \in Threads : (api[t] \in {"sending", "sent"}) ~> (api[t] = "idle")

\* C33 (as stated): when no Start or Stop call is in progress and
\* IsRunning() is false, no run() goroutine is alive and no scan is running.
C33_StoppedMeansNoLoop ==
    (\A t \in Threads : api[t] = "idle") /\ ~isRunning => AliveLoops = 0 /\ Scanning = 0

\* GetClient(ctx) with ctx cancelled before the call, or made while the
\* quota endpoint is down: RateLimit.Get fails for every token it is
\* called for.
GetClientCancelled ==
    GetClientUnder(CancelledQuota)
        /\ UNCHANGED <<sw, storeVars, lockVars, callVars, monVars, scanVars>>

\* C34 (as stated): an acquire whose every quota call fails (a cancelled
\* ctx, an outage of the quota endpoint) fails and leaves every credential
\* that was flagged available flagged available.
C34_FailedRefreshKeepsFlags ==
    [][GetClientCancelled =>
          /\ ret'.kind \in {"notokens", "exhausted"}
          /\ \A i \in TokenIdx : tokens[i].IsAvailable => tokens'[i].IsAvailable]_vars

\* C34 (amended): such an acquire fails, leaves every snapshot as it was,
\* and leaves every credential flagged unavailable: each credential that
\* was flagged available is flagged unavailable when its refresh fails.
C34_FailedRefreshClearsFlags ==
    [][GetClientCancelled =>
          /\ ret'.kind \in {"notokens", "exhausted"}
          /\ \A i \in TokenIdx : /\ ~tokens'[i].IsAvailable
                                  /\ tokens'[i].RateLimit = tokens[i].RateLimit
          /\ currentIndex' = currentIndex]_vars

\* An acquire has failed and left every credential flagged unavailable
\* with a snapshot that shows quota above the reserve: only a failed
\* refresh flags such a credential.
C34_Witness ==
    /\ ret.kind = "notokens"
    /\ \A i \in TokenIdx : /\ ~tokens[i].IsAvailable
                            /\ ~tokens[i].RateLimit.Nil
                            /\ tokens[i].RateLimit.Remaining > ReserveThreshold
                            /\ tokens[i].RateLimit.Reset > 0

\* ---------------------------------- the pool's methods, lock by lock
\* GetClient, GetTokenStats and RefreshAllTokens called by any goroutine at
\* any time, with every Lock, RLock and unlock a step of its own. th[t].pc
\* names where the goroutine t stands; at the pcs that end in lock it is
\* inside a Lock or RLock call that has not returned. The steps follow the control
\* flow and the cursor; what a branch tests in a token (its flag, its
\* snapshot, the answer of the quota endpoint) is left open, and every
\* outcome of the test is taken.
\* The lock call the goroutine t is inside: mu is -1 for p.mu and k for
\* the mu of token k; w tells Lock from RLock. mu is -2 outside such a call.
Wants(t) ==
    LET pc == th[t].pc IN
    IF pc = "o_plock_w" THEN [mu |-> -1, w |-> TRUE]
    ELSE IF pc \in {"o_plock_s", "o_plock_f"} THEN [mu |-> -1, w |-> FALSE]
    ELSE IF pc \in {"o_ulock", "o_mlock", "o_flock"} THEN [mu |-> th[t].k, w |-> TRUE]
    ELSE IF pc \in {"o_hlock", "o_rlock", "o_slock"} THEN [mu |-> th[t].k, w |-> FALSE]
    ELSE [mu |-> -2, w |-> FALSE]

Mutex(m) == IF m = -1 THEN pmu ELSE tmu[m]

\* sync.RWMutex: Lock returns when nobody holds the mutex; RLock returns
\* when no writer holds it and no other goroutine is inside Lock (a blocked
\* Lock call keeps new readers out).
Granted(t) ==
    LET want == Wants(t) IN
    /\ want.mu # -2
    /\ IF want.w THEN CanLock(Mutex(want.mu))
       ELSE /\ CanRLock(Mutex(want.mu))
            /\ \A u \in PoolThreads \ {t} : Wants(u) # [mu |-> want.mu, w |-> TRUE]

\* Where the goroutine goes on when its lock call has returned.
AfterLock(pc) ==
    CASE pc = "o_plock_w" -> "o_top"
      [] pc = "o_plock_s" -> "o_slock"
      [] pc = "o_plock_f" -> "o_fcopy"
      [] pc = "o_ulock" -> "o_update"
      [] pc = "o_hlock" -> "o_has"
      [] pc = "o_mlock" -> "o_mark"
      [] pc = "o_rlock" -> "o_reset"
      [] pc = "o_slock" -> "o_sread"
      [] pc = "o_flock" -> "o_fupdate"

\* A goroutine calls GetClient: p.mu.Lock() (line 145).
GetClientCall(t) ==
    /\ LockAlive
    /\ th[t].pc = "idle"
    /\ th' = [th EXCEPT ![t] = [NoThread EXCEPT !.pc = "o_plock_w"]]
    /\ UNCHANGED <<tokens, currentIndex, pmu, tmu, ret, prevIdx, refreshPos, sw, storeVars, monVars, scanVars, callVars>>

\* A goroutine calls GetTokenStats: p.mu.RLock() (line 272).
GetTokenStatsCall(t) ==
    /\ LockAlive
    /\ th[t].pc = "idle"
    /\ th' = [th EXCEPT ![t] = [NoThread EXCEPT !.pc = "o_plock_s"]]
    /\ UNCHANGED <<tokens, currentIndex, pmu, tmu, ret, prevIdx, refreshPos, sw, storeVars, monVars, scanVars, callVars>>

\* A goroutine calls RefreshAllTokens: p.mu.RLock() (line 300).
RefreshAllTokensCall(t) ==
    /\ LockAlive
    /\ th[t].pc = "idle"
    /\ th' = [th EXCEPT ![t] = [NoThread EXCEPT !.pc = "o_plock_f"]]
    /\ UNCHANGED <<tokens, currentIndex, pmu, tmu, ret, prevIdx, refreshPos, sw, storeVars, monVars, scanVars, callVars>>

\* The Lock or RLock call the goroutine t is inside returns. GetClient then
\* reads startIndex := p.currentIndex (line 148).
LockReturns(t) ==
    /\ LockAlive
    /\ Granted(t)
    /\ LET want == Wants(t) IN
       /\ IF want.mu = -1
          THEN /\ pmu' = IF want.w THEN Lock(pmu, t) ELSE RLock(pmu, t)
               /\ UNCHANGED tmu
          ELSE /\ tmu' = [tmu EXCEPT ![want.mu] = IF want.w THEN Lock(@, t) ELSE RLock(@, t)]
               /\ UNCHANGED pmu
       /\ th' = [th EXCEPT ![t] = [@ EXCEPT !.pc = AfterLock(th[t].pc),
                                            !.startIndex = IF th[t].pc = "o_plock_w"
                                                           THEN currentIndex ELSE @]]
    /\ UNCHANGED <<tokens, currentIndex, ret, prevIdx, refreshPos, sw, storeVars, monVars, scanVars, callVars>>

\* GetClient, lines 152-158 and 195: the loop test, then the test of the
\* flag of the token at the cursor; UpdateRateLimit begins with t.mu.Lock().
GetClientLoopTest(t) ==
    /\ LockAlive
    /\ th[t].pc = "o_top"
    /\ IF th[t].attempts >= NTokens
       THEN /\ pmu' = Unlock(pmu, t)
            /\ th' = [th EXCEPT ![t] = NoThread]
       ELSE /\ UNCHANGED pmu
            /\ \E IsAvailable \in BOOLEAN :
                  th' = [th EXCEPT ![t] =
                           IF IsAvailable
                           THEN [@ EXCEPT !.pc = "o_ulock", !.k = currentIndex]
                           ELSE [@ EXCEPT !.pc = "o_next", !.cont = FALSE]]
    /\ UNCHANGED <<tokens, currentIndex, tmu, ret, prevIdx, refreshPos, sw, storeVars, monVars, scanVars, callVars>>

\* UpdateRateLimit, lines 203-218, and its deferred t.mu.Unlock(); then
\* GetClient, line 159: markTokenUnavailable (p.tokens[index].mu.Lock()) on
\* an error, HasRemainingCalls (t.mu.RLock()) otherwise.
UpdateRateLimitBody(t) ==
    /\ LockAlive
    /\ th[t].pc = "o_update"
    /\ \E resp \in QuotaResponses :
          th' = [th EXCEPT ![t] = IF resp.err THEN [@ EXCEPT !.pc = "o_mlock", !.cont = TRUE]
                                  ELSE [@ EXCEPT !.pc = "o_hlock"]]
    /\ tmu' = [tmu EXCEPT ![th[t].k] = Unlock(@, t)]
    /\ UNCHANGED <<tokens, currentIndex, pmu, ret, prevIdx, refreshPos, sw, storeVars, monVars, scanVars, callVars>>

\* HasRemainingCalls, lines 226-235, and its deferred t.mu.RUnlock(); then
\* GetClient, lines 168 and 178-179.
HasRemainingCallsBody(t) ==
    /\ LockAlive
    /\ th[t].pc = "o_has"
    /\ \E has \in BOOLEAN :
          th' = [th EXCEPT ![t] = IF has THEN [@ EXCEPT !.pc = "o_log"]
                                  ELSE [@ EXCEPT !.pc = "o_mlock", !.cont = FALSE]]
    /\ tmu' = [tmu EXCEPT ![th[t].k] = Unlock(@, t)]
    /\ UNCHANGED <<tokens, currentIndex, pmu, ret, prevIdx, refreshPos, sw, storeVars, monVars, scanVars, callVars>>

\* GetClient, lines 169-174: the log line (a nil snapshot makes it panic),
\* the return and the deferred p.mu.Unlock().
GetClientReturn(t) ==
    /\ LockAlive
    /\ th[t].pc = "o_log"
    /\ \/ /\ th' = [th EXCEPT ![t] = [@ EXCEPT !.pc = "panic"]]
          /\ UNCHANGED pmu
       \/ /\ th' = [th EXCEPT ![t] = NoThread]
          /\ pmu' = Unlock(pmu, t)
    /\ UNCHANGED <<tokens, currentIndex, tmu, ret, prevIdx, refreshPos, sw, storeVars, monVars, scanVars, callVars>>

\* markTokenUnavailable, lines 242-243.
markTokenUnavailableBody(t) ==
    /\ LockAlive
    /\ th[t].pc = "o_mark"
    /\ tmu' = [tmu EXCEPT ![th[t].k] = Unlock(@, t)]
    /\ th' = [th EXCEPT ![t] = [@ EXCEPT !.pc = "o_next"]]
    /\ UNCHANGED <<tokens, currentIndex, pmu, ret, prevIdx, refreshPos, sw, storeVars, monVars, scanVars, callVars>>

\* GetClient, lines 162-164 and 182-187: nextToken, attempts++, and either
\* `continue` or the all-cycled test; getNextResetTime begins with the
\* first token's mu.RLock().
GetClientAdvance(t) ==
    /\ LockAlive
    /\ th[t].pc = "o_next"
    /\ currentIndex' = nextToken(currentIndex)
    /\ th' = [th EXCEPT ![t] =
                 IF /\ ~th[t].cont
                    /\ currentIndex' = th[t].startIndex
                    /\ th[t].attempts + 1 = NTokens
                 THEN [@ EXCEPT !.pc = "o_rlock", !.k = 0, !.attempts = @ + 1]
                 ELSE [@ EXCEPT !.pc = "o_top", !.cont = FALSE, !.attempts = @ + 1]]
    /\ UNCHANGED <<tokens, pmu, tmu, ret, prevIdx, refreshPos, sw, storeVars, monVars, scanVars, callVars>>

\* getNextResetTime, lines 258-264, for one token, and GetClient, lines
\* 188-191, after the last one.
getNextResetTimeBody(t) ==
    /\ LockAlive
    /\ th[t].pc = "o_reset"
    /\ tmu' = [tmu EXCEPT ![th[t].k] = Unlock(@, t)]
    /\ IF th[t].k + 1 < NTokens
       THEN /\ th' = [th EXCEPT ![t] = [@ EXCEPT !.pc = "o_rlock", !.k = @ + 1]]
            /\ UNCHANGED pmu
       ELSE \/ /\ pmu' = Unlock(pmu, t)
               /\ th' = [th EXCEPT ![t] = NoThread]
            \/ /\ th' = [th EXCEPT ![t] = [@ EXCEPT !.pc = "o_top"]]
               /\ UNCHANGED pmu
    /\ UNCHANGED <<tokens, currentIndex, ret, prevIdx, refreshPos, sw, storeVars, monVars, scanVars, callVars>>

\* GetTokenStats with every token's RUnlock deferred to its return.
GetTokenStatsBodyDeferred(t) ==
    /\ LockAlive
    /\ th[t].pc = "o_sread"
    /\ IF th[t].k + 1 < NTokens
       THEN /\ th' = [th EXCEPT ![t] = [@ EXCEPT !.pc = "o_slock", !.k = @ + 1]]
            /\ UNCHANGED <<pmu, tmu>>
       ELSE /\ th' = [th EXCEPT ![t] = NoThread]
            /\ tmu' = [i \in TokenIdx |-> Unlock(tmu[i], t)]
            /\ pmu' = Unlock(pmu, t)
    /\ UNCHANGED <<tokens, currentIndex, ret, prevIdx, refreshPos, sw, storeVars, monVars, scanVars, callVars>>

\* GetTokenStats, lines 279-292, for one token; after the last one the
\* return and the deferred p.mu.RUnlock().
GetTokenStatsBody(t) ==
    /\ LockAlive
    /\ th[t].pc = "o_sread"
    /\ tmu' = [tmu EXCEPT ![th[t].k] = Unlock(@, t)]
    /\ IF th[t].k + 1 < NTokens
       THEN /\ th' = [th EXCEPT ![t] = [@ EXCEPT !.pc = "o_slock", !.k = @ + 1]]
            /\ UNCHANGED pmu
       ELSE /\ th' = [th EXCEPT ![t] = NoThread]
            /\ pmu' = Unlock(pmu, t)
    /\ UNCHANGED <<tokens, currentIndex, ret, prevIdx, refreshPos, sw, storeVars, monVars, scanVars, callVars>>

\* RefreshAllTokens, lines 301-302: tokens := p.tokens; p.mu.RUnlock().
RefreshAllTokensCopy(t) ==
    /\ LockAlive
    /\ th[t].pc = "o_fcopy"
    /\ pmu' = Unlock(pmu, t)
    /\ th' = [th EXCEPT ![t] = [@ EXCEPT !.pc = "o_flock", !.k = 0]]
    /\ UNCHANGED <<tokens, currentIndex, tmu, ret, prevIdx, refreshPos, sw, storeVars, monVars, scanVars, callVars>>

\* RefreshAllTokens, lines 304-309, for one token: UpdateRateLimit, whose
\* error is only logged.
RefreshAllTokensBody(t) ==
    /\ LockAlive
    /\ th[t].pc = "o_fupdate"
    /\ tmu' = [tmu EXCEPT ![th[t].k] = Unlock(@, t)]
    /\ th' = [th EXCEPT ![t] = IF th[t].k + 1 < NTokens
                                THEN [@ EXCEPT !.pc = "o_flock", !.k = @ + 1]
                                ELSE NoThread]
    /\ UNCHANGED <<tokens, currentIndex, pmu, ret, prevIdx, refreshPos, sw, storeVars, monVars, scanVars, callVars>>

LockOrderNext ==
    \/ \E t \in PoolThreads : GetClientCall(t)
    \/ \E t \in PoolThreads : GetTokenStatsCall(t)
    \/ \E t \in PoolThreads : RefreshAllTokensCall(t)
    \/ \E t \in PoolThreads : LockReturns(t)
    \/ \E t \in PoolThreads : GetClientLoopTest(t)
    \/ \E t \in PoolThreads : UpdateRateLimitBody(t)
    \/ \E t \in PoolThreads : HasRemainingCallsBody(t)
    \/ \E t \in PoolThreads : GetClientReturn(t)
    \/ \E t \in PoolThreads : markTokenUnavailableBody(t)
    \/ \E t \in PoolThreads : GetClientAdvance(t)
    \/ \E t \in PoolThreads : getNextResetTimeBody(t)
    \/ \E t \in PoolThreads : GetTokenStatsBody(t)
    \/ \E t \in PoolThreads : RefreshAllTokensCopy(t)
    \/ \E t \in PoolThreads : RefreshAllTokensBody(t)

SpecLockOrder == Init /\ [][LockOrderNext]_vars

\* The token locks the goroutine t holds.
TokenLocksHeld(t) == { k \in TokenIdx : Holds(tmu[k], t) }

\* C35: no interleaving of GetClient, GetTokenStats and RefreshAllTokens
\* calls deadlocks. A goroutine holds at most one token lock; inside a lock
\* call it holds no token lock, and inside a lock call on p.mu it holds
\* nothing; and while the process lives, whenever some call is in progress
\* a goroutine inside a call can take a step.
C35_NoDeadlock ==
    /\ \A t \in PoolThreads :
          /\ Cardinality(TokenLocksHeld(t)) <= 1
          /\ Wants(t).mu # -2 => TokenLocksHeld(t) = {}
          /\ Wants(t).mu = -1 => ~Holds(pmu, t)
          /\ Wants(t).mu \in TokenIdx => ~Holds(tmu[Wants(t).mu], t)
    /\ LockAlive /\ (\E t \in PoolThreads : th[t].pc # "idle") =>
          \E t \in PoolThreads : th[t].pc # "idle" /\ (Wants(t).mu # -2 => Granted(t))

\* A GetClient call holds p.mu and waits for the lock of a token that a
\* RefreshAllTokens call holds, while a GetTokenStats call waits for p.mu.
C35_Witness ==
    \E a, b, c \in PoolThreads :
        /\ th[a].pc = "o_ulock" /\ Holds(pmu, a)
        /\ th[b].pc = "o_fupdate" /\ th[b].k = th[a].k /\ tmu[th[b].k].w = b
        /\ th[c].pc = "o_plock_s"
        /\ ~Granted(a) /\ ~Granted(c)

\* The search as the Go scheduler runs it: every call made upstream (to the
\* quota endpoint, to the search endpoint) returns, every sleep ends, and
\* the goroutine in SearchWithRetry goes on whenever it can.
SpecSearchLive ==
    /\ Init /\ [][SearchNext]_vars
    /\ WF_vars(RefreshAllTokens)
    /\ WF_vars(SearchCodeBegin)
    /\ WF_vars(SearchCodePage)
    /\ WF_vars(SearchCodePageDelay)
    /\ WF_vars(SearchWithRetryBackoff)
    /\ WF_vars(SearchWithRetryGiveUp)
    /\ WF_vars(SearchWithRetryReturn)

\* A rule's search makes at most 3 attempts; an attempt makes at most one
\* acquire, which makes at most one quota call for each token, and at most
\* 10 page requests.
BoundedCalls ==
    /\ sw.attempts <= ScanMaxRetries
    /\ sw.acquires <= 1
    /\ ret.calls <= NTokens
    /\ Len(sw.pageLog) <= MaxPages

\* C36 (as stated): a scan terminates when every upstream call returns:
\* each rule's search makes a bounded number of upstream calls, and then
\* returns to scan's loop, which goes back to run's select.
C36_CycleTerminates ==
    /\ []BoundedCalls
    /\ (sw.pc # "idle") ~> (sw.pc = "idle")

\* C37 (as stated): when acquire fails with the typed error, the reset
\* instant the error names is the earliest reset instant of the snapshots
\* of all credentials, and it has not passed.
C37_ExhaustedResetAhead ==
    [][GetClient /\ ret'.kind = "exhausted" =>
          /\ \E i \in TokenIdx : ~tokens'[i].RateLimit.Nil
          /\ \A i \in TokenIdx :
                ~tokens'[i].RateLimit.Nil => ret'.at <= tokens'[i].RateLimit.Reset
          /\ \E i \in TokenIdx :
                ~tokens'[i].RateLimit.Nil /\ ret'.at = tokens'[i].RateLimit.Reset
          /\ ret'.at >= 0]_vars

\* C38 (as stated): once the request for a page after the first has failed
\* in a rule's search, the search hands no candidate to scanRule, and the
\* outcome recorded for the rule counts no results.
C38_FailedPageNoResults ==
    sw.discarded /\ sw.pc = "done" => sw.result.kind = "err" /\ sw.result.n = 0

\* C38 (amended): an attempt that fails hands back none of the items it
\* had collected; a search that ends with an error hands no candidate to
\* scanRule; and a search that ends well hands back the items of the pages
\* of its last attempt alone, whatever the failed attempts before it had
\* collected.
C38_FailedAttemptDiscarded ==
    /\ sw.pc = "backoff" => sw.collected = 0
    /\ sw.pc = "done" /\ sw.result.kind = "err" => sw.result.n = 0 /\ sw.collected = 0
    /\ sw.pc = "done" /\ sw.result.kind = "ok" =>
          sw.result.n = Len(sw.pageLog) - (IF sw.lastItems = 0 THEN 1 ELSE 0)

\* An attempt failed at a page after its first, and the attempt after it
\* ended well with the one item of its own first page.
C38_Witness ==
    /\ sw.discarded /\ sw.attempts = 2
    /\ sw.pc = "done" /\ sw.result.kind = "ok"
    /\ sw.pageLog = <<1, 2>> /\ sw.result.n = 1

\* C39 (as stated): SearchWithRetry sleeps only between two attempts: no
\* sleep follows the attempt numbered maxRetries, so a call with
\* maxRetries > 0 has begun at most maxRetries - 1 sleeps.
C39_SleepsBetweenAttempts ==
    sw.maxRetries > 0 => Len(sw.sleeps) <= sw.maxRetries - 1

====
